---- MODULE Spec2Model ----
(***************************************************************************)
(* A model of WmtsLayer (src/src/shaders/StarFieldProgram.js, the second   *)
(* AMD module of the file): the per-frame quadtree traversal, the tile     *)
(* image retrieval pipeline with its asynchronous callbacks, and the       *)
(* negotiation of tile matrix sets.                                        *)
(*                                                                         *)
(* Geometry is discretised: a sector is a rectangle of cells of the        *)
(* deepest tile matrix of the layer; a camera (modelview-projection) is    *)
(* the set of tiles whose extent it sees and the set of tiles it wants     *)
(* subdivided.                                                             *)
(***************************************************************************)
EXTENDS Integers, Sequences, FiniteSets, Bags, TLC

VARIABLES
    tileMatrixSet,          \* this.tileMatrixSet: [supportedCRS, tileMatrix]
    sector,                 \* this.sector
    expiration,             \* this.expiration is set (a Date) or not
    gpuResourceCache,       \* dc.gpuResourceCache: imagePath -> texture
    absentResourceList,     \* this.absentResourceList: the paths it reports absent
    currentRetrievals,      \* this.currentRetrievals: array of imagePaths
    images,                 \* Image objects whose load is outstanding (bag of imagePaths)
    currentTiles,           \* this.currentTiles
    currentTilesInvalid,    \* this.currentTilesInvalid
    topLevelTiles,          \* this.topLevelTiles (<<>> while undefined)
    currentAncestorTile,    \* this.currentAncestorTile
    lasTtMVP,               \* this.lasTtMVP
    lastGlobeStateKey,      \* this.lastGlobeStateKey
    redrawEvents,           \* a REDRAW event is pending on the canvas
    lastOp,                 \* history: the operation that produced this state
    layerCaps,              \* negotiation: the layer's capabilities (layerCaps)
    convertedTileMatrixSets,\* negotiation: the outcome of convertTileMatrixSets
    config,                 \* the configuration given to the constructor
    layerIdentifier,        \* this.layerIdentifier
    styleIdentifier,        \* this.styleIdentifier
    timeString,             \* this.timeString
    imageFormat,            \* this.imageFormat
    resourceUrl,            \* this.resourceUrl: a template, as a sequence of tokens
    serviceUrl,             \* this.serviceUrl, as a sequence of tokens
    detailControl,          \* this.detailControl, in hundredths of a pixel
    gl                      \* the WebGL context: the uniform calls it has received

layerVars == <<tileMatrixSet, sector, expiration, gpuResourceCache, absentResourceList,
               currentRetrievals, images, currentTiles, currentTilesInvalid,
               topLevelTiles, currentAncestorTile, lasTtMVP, lastGlobeStateKey,
               redrawEvents>>

negotiationVars == <<layerCaps, convertedTileMatrixSets>>

identityVars == <<layerIdentifier, styleIdentifier, timeString, imageFormat,
                  resourceUrl, serviceUrl, detailControl>>

constructionVars == <<config, identityVars>>

programVars == <<gl>>

vars == <<layerVars, lastOp, negotiationVars, constructionVars, programVars>>

(***************************************************************************)
(* Values                                                                  *)
(***************************************************************************)
\* null / undefined for object-valued fields
Null == [null |-> TRUE]

\* undefined for string-valued fields; a string concatenation or replacement
\* given undefined writes this text
Undefined == "undefined"

\* !s for a string-valued field
IsFalsy(s) == s \in {Undefined, ""}

\* the image size convertTileMatrixSets accepts
TileSize == 256

\* the default of this.detailControl, 1.75 pixels, in hundredths of a pixel
DefaultDetailControl == 175

\* an upper bound on the Image objects alive at once (never reached by the code)
MaxImages == 4

TileMatrix(levelNumber, matrixHeight, matrixWidth) ==
    [identifier |-> ToString(levelNumber),
     levelNumber |-> levelNumber, matrixHeight |-> matrixHeight,
     matrixWidth |-> matrixWidth, tileHeight |-> TileSize, tileWidth |-> TileSize]

Sector(minRow, maxRow, minCol, maxCol) ==
    [minRow |-> minRow, maxRow |-> maxRow, minCol |-> minCol, maxCol |-> maxCol]

\* Sector.intersects: the interiors overlap
SectorIntersects(a, b) ==
    /\ a.minRow < b.maxRow /\ a.maxRow > b.minRow
    /\ a.minCol < b.maxCol /\ a.maxCol > b.minCol

\* A coordinate reference system name, by the substrings that
\* isEpsg4326Crs, isEpsg3857Crs and isOGCCrs84 look for in it
Epsg4326 == {"EPSG", "4326"}

Epsg3857 == {"EPSG", "3857"}

Epsg900913 == {"EPSG", "900913"}

OgcCrs84 == {"OGC", "CRS84"}

Epsg27700 == {"EPSG", "27700"}

isEpsg4326Crs(crs) == "EPSG" \in crs /\ "4326" \in crs

isEpsg3857Crs(crs) == "EPSG" \in crs /\ ("3857" \in crs \/ "900913" \in crs)

isOGCCrs84(crs) == "OGC" \in crs /\ "CRS84" \in crs

\* a resource URL template of a service, as its sequence of tokens
RestTemplate ==
    <<"http://tiles/", "{Style}", "/", "{TileMatrixSet}", "/", "{TileMatrix}", "/",
      "{TileRow}", "/", "{TileCol}", ".png">>

\* A Web Mercator layer of two levels whose bounding box covers the northern
\* half of the map: the top tile and two of its children.
WideLayer ==
    [layerIdentifier |-> "layer", styleIdentifier |-> "default",
     timeString |-> Undefined, imageFormat |-> "image/png",
     resourceUrl |-> RestTemplate, serviceUrl |-> <<>>,
     tileMatrixSet |-> [identifier |-> "GoogleMapsCompatible",
                        supportedCRS |-> Epsg3857,
                        tileMatrix |-> <<TileMatrix(0, 1, 1), TileMatrix(1, 2, 2)>>],
     sector |-> Sector(0, 1, 0, 2)]

\* The same tile matrix set with a bounding box inside the north-west quarter:
\* the top tile and one child.
NarrowLayer == [WideLayer EXCEPT !.sector = Sector(0, 1, 0, 1)]

\* A geographic layer of three levels whose level 0 has two tiles. Its bounding
\* box covers the sixth and the seventh tile of the top row of the deepest
\* level: both tiles of level 0 are created, and under the second one two
\* tiles of level 1 and one child of each of them meet the bounding box.
DeepLayer ==
    [WideLayer EXCEPT
        !.tileMatrixSet = [identifier |-> "WorldCRS84Quad", supportedCRS |-> Epsg4326,
                           tileMatrix |-> <<TileMatrix(0, 1, 2), TileMatrix(1, 2, 4),
                                            TileMatrix(2, 4, 8)>>],
        !.sector = Sector(0, 1, 5, 7)]

\* A geographic layer of two levels whose level 0 has two tiles, with a
\* bounding box inside the first tile of level 1.
TwoTopLayer ==
    [WideLayer EXCEPT
        !.tileMatrixSet = [identifier |-> "WorldCRS84Quad", supportedCRS |-> Epsg4326,
                           tileMatrix |-> <<TileMatrix(0, 1, 2), TileMatrix(1, 2, 4)>>],
        !.sector = Sector(0, 1, 0, 1)]

GlobeStateKeys == {"globe1"}

(***************************************************************************)
(* Tiles                                                                   *)
(***************************************************************************)
DeepestMatrix == tileMatrixSet.tileMatrix[Len(tileMatrixSet.tileMatrix)]

\* makeTile: the cache path of a tile is the layer's cachePath, the matrix
\* identifier, the row and the column; within one layer the last three tell
\* paths apart.
makeTile(tileSector, tileMatrix, row, column) ==
    [sector |-> tileSector, tileMatrix |-> tileMatrix, row |-> row, column |-> column,
     imagePath |-> <<tileMatrix.levelNumber, row, column>>]

\* createTile / createTile3857: the tile's sector follows from the matrix
\* dimensions, the row and the column.
createTile(tileMatrix, row, column) ==
    LET spanRows == DeepestMatrix.matrixHeight \div tileMatrix.matrixHeight
        spanCols == DeepestMatrix.matrixWidth \div tileMatrix.matrixWidth
    IN  makeTile(Sector(row * spanRows, (row + 1) * spanRows,
                        column * spanCols, (column + 1) * spanCols),
                 tileMatrix, row, column)

\* createTopLevelTiles with matrixHeight as the bound of both loops
createTopLevelTilesSquare ==
    LET tileMatrix == tileMatrixSet.tileMatrix[1]
    IN  [k \in 1..(tileMatrix.matrixHeight * tileMatrix.matrixHeight) |->
            createTile(tileMatrix, (k - 1) \div tileMatrix.matrixHeight,
                                   (k - 1) % tileMatrix.matrixHeight)]

\* createTopLevelTiles: one tile per cell of level 0, row-major
createTopLevelTiles ==
    LET tileMatrix == tileMatrixSet.tileMatrix[1]
    IN  [k \in 1..(tileMatrix.matrixHeight * tileMatrix.matrixWidth) |->
            createTile(tileMatrix, (k - 1) \div tileMatrix.matrixWidth,
                                   (k - 1) % tileMatrix.matrixWidth)]

\* WmtsLayerTile.subdivideToCache: the four children at the next level
subdivideToCache(tile, nextLevel) ==
    << createTile(nextLevel, 2 * tile.row,     2 * tile.column),
       createTile(nextLevel, 2 * tile.row,     2 * tile.column + 1),
       createTile(nextLevel, 2 * tile.row + 1, 2 * tile.column),
       createTile(nextLevel, 2 * tile.row + 1, 2 * tile.column + 1) >>

\* this.tileMatrixSet.tileMatrix[levelNumber + 1] (arrays are 0-based in the code)
HasNextLevel(tile) == tile.tileMatrix.levelNumber + 2 <= Len(tileMatrixSet.tileMatrix)

NextLevel(tile) == tileMatrixSet.tileMatrix[tile.tileMatrix.levelNumber + 2]

SeqToSet(s) == {s[i] : i \in 1..Len(s)}

RECURSIVE TilesBelow(_)
\* the tiles the traversal can create under a tile
TilesBelow(tile) ==
    {tile} \cup
    IF HasNextLevel(tile)
    THEN UNION {TilesBelow(child) :
                  child \in {c \in SeqToSet(subdivideToCache(tile, NextLevel(tile))) :
                               SectorIntersects(sector, c.sector)}}
    ELSE {}

LayerTiles == UNION {TilesBelow(t) : t \in SeqToSet(createTopLevelTiles)}

LayerPaths == {t.imagePath : t \in LayerTiles}

ParentPath(path) == <<path[1] - 1, path[2] \div 2, path[3] \div 2>>

(***************************************************************************)
(* The draw context of a frame                                             *)
(***************************************************************************)
\* A modelview-projection, by what it decides: the tiles whose extent
\* intersects its frustum (and overlaps the projection limits) and the tiles
\* Tile.mustSubdivide answers true for. The traversal asks about a tile only
\* after its parent was found visible and subdivided.
ModelviewProjections ==
    {[visible |-> v, mustSubdivide |-> m] :
        v \in {s \in SUBSET LayerPaths :
                 \A p \in s : p[1] = 0 \/ ParentPath(p) \in s},
        m \in SUBSET {t.imagePath : t \in {u \in LayerTiles : HasNextLevel(u)}}}

UsefulModelviewProjections ==
    {c \in ModelviewProjections :
        /\ c.mustSubdivide \subseteq c.visible
        /\ \A p \in c.visible : p[1] = 0 \/ ParentPath(p) \in c.mustSubdivide
        \* the cameras that look at the layer
        /\ c.visible # {}
        /\ \A p \in c.mustSubdivide :
              \E q \in c.visible : q[1] > 0 /\ ParentPath(q) = p}

DrawContexts ==
    {[terrain |-> t, modelviewProjection |-> c, globeStateKey |-> k] :
        t \in BOOLEAN, c \in UsefulModelviewProjections, k \in GlobeStateKeys}

RECURSIVE AllTilesBelow(_)
\* the tiles subdivision makes under a tile, inside the layer's sector or not
AllTilesBelow(tile) ==
    {tile} \cup
    IF HasNextLevel(tile)
    THEN UNION {AllTilesBelow(child) :
                  child \in SeqToSet(subdivideToCache(tile, NextLevel(tile)))}
    ELSE {}

AllTiles == UNION {AllTilesBelow(t) : t \in SeqToSet(createTopLevelTiles)}

\* the cameras by what isTileVisible and Tile.mustSubdivide answer for each
\* tile on its own: a tile outside the layer's sector can be in the frustum,
\* and so can a tile whose parent is not
FreeCameras ==
    {[visible |-> v, mustSubdivide |-> m] :
        v \in SUBSET {t.imagePath : t \in AllTiles},
        m \in SUBSET {t.imagePath : t \in {u \in AllTiles : HasNextLevel(u)}}}

FreeDrawContexts ==
    {[terrain |-> TRUE, modelviewProjection |-> c, globeStateKey |-> k] :
        c \in FreeCameras, k \in GlobeStateKeys}

\* the state keys of a globe whose state changes between frames
ChangingGlobeStateKeys == {"globe1", "globe2"}

\* the frames of a globe whose state changes
ChangingDrawContexts ==
    {[terrain |-> t, modelviewProjection |-> c, globeStateKey |-> k] :
        t \in BOOLEAN, c \in UsefulModelviewProjections, k \in ChangingGlobeStateKeys}

(***************************************************************************)
(* Retrieval                                                               *)
(***************************************************************************)
\* Array.prototype.indexOf(x) < 0
NotInArray(array, x) == \A i \in 1..Len(array) : array[i] # x

\* String.prototype.replace(pattern, value) with a string pattern: the first
\* occurrence of the pattern is replaced, the others stay
Replace(url, pattern, value) ==
    IF \E i \in 1..Len(url) : url[i] = pattern
    THEN LET first == CHOOSE i \in 1..Len(url) :
                          /\ url[i] = pattern
                          /\ \A j \in 1..(i - 1) : url[j] # pattern
         IN  [url EXCEPT ![first] = value]
    ELSE url

\* the template form of resourceUrlForTile
TemplateUrl(tile) ==
    LET url == Replace(Replace(Replace(Replace(Replace(resourceUrl,
                   "{Style}", styleIdentifier),
                   "{TileMatrixSet}", tileMatrixSet.identifier),
                   "{TileMatrix}", tile.tileMatrix.identifier),
                   "{TileCol}", ToString(tile.column)),
                   "{TileRow}", ToString(tile.row))
    IN  IF ~IsFalsy(timeString) THEN Replace(url, "{Time}", timeString) ELSE url

\* the key-value form of resourceUrlForTile
KvpUrl(tile, format) ==
    serviceUrl \o <<"service=WMTS&request=GetTile&version=1.0.0">>
    \o <<"&Layer=", layerIdentifier>>
    \o (IF ~IsFalsy(styleIdentifier) THEN <<"&Style=", styleIdentifier>> ELSE <<>>)
    \o <<"&Format=", format>>
    \o (IF ~IsFalsy(timeString) THEN <<"&Time=", timeString>> ELSE <<>>)
    \o <<"&TileMatrixSet=", tileMatrixSet.identifier>>
    \o <<"&TileMatrix=", tile.tileMatrix.identifier>>
    \o <<"&TileRow=", ToString(tile.row)>>
    \o <<"&TileCol=", ToString(tile.column)>>

\* resourceUrlForTile(tile, imageFormat): the request for a tile, as a sequence
\* of tokens
resourceUrlForTile(tile, format) ==
    IF resourceUrl # <<>> THEN TemplateUrl(tile) ELSE KvpUrl(tile, format)

\* AbsentResourceList.isResourceAbsent
isResourceAbsent(path) == path \in absentResourceList

\* retrieveTileImage without the test of currentRetrievals
retrieveTileImageNoInFlightGuard(tile, st) ==
    IF isResourceAbsent(tile.imagePath)
    THEN st
    ELSE [st EXCEPT !.currentRetrievals = Append(@, tile.imagePath),
                    !.images = @ (+) SetToBag({tile.imagePath})]

\* retrieveTileImage taking the absent branch for the empty-url branch
retrieveTileImageInvalidatesWhenAbsent(tile, st) ==
    IF NotInArray(st.currentRetrievals, tile.imagePath)
    THEN IF isResourceAbsent(tile.imagePath)
         THEN [st EXCEPT !.currentTilesInvalid = TRUE]
         ELSE [st EXCEPT !.currentRetrievals = Append(@, tile.imagePath),
                         !.images = @ (+) SetToBag({tile.imagePath})]
    ELSE st

\* retrieveTileImage without the test of the absent-resource list
retrieveTileImageNoAbsentGuard(tile, st) ==
    IF NotInArray(st.currentRetrievals, tile.imagePath)
    THEN [st EXCEPT !.currentRetrievals = Append(@, tile.imagePath),
                    !.images = @ (+) SetToBag({tile.imagePath})]
    ELSE st

\* retrieveTileImage, on the fields it touches:
\* st = [currentRetrievals, images, currentTilesInvalid]
retrieveTileImage(tile, st) ==
    IF NotInArray(st.currentRetrievals, tile.imagePath)
    THEN IF isResourceAbsent(tile.imagePath)
         THEN st
         ELSE IF resourceUrlForTile(tile, imageFormat) = <<>>
              THEN [st EXCEPT !.currentTilesInvalid = TRUE]
              ELSE [st EXCEPT !.currentRetrievals = Append(@, tile.imagePath),
                              !.images = @ (+) SetToBag({tile.imagePath})]
    ELSE st

\* removeFromCurrentRetrievals testing index > 0: the first entry is never removed
removeFromCurrentRetrievalsNotFirst(array, imagePath) ==
    IF NotInArray(array, imagePath) \/ array[1] = imagePath
    THEN array
    ELSE LET index == CHOOSE i \in 1..Len(array) :
                         array[i] = imagePath /\ \A j \in 1..(i - 1) : array[j] # imagePath
         IN  SubSeq(array, 1, index - 1) \o SubSeq(array, index + 1, Len(array))

\* removeFromCurrentRetrievals: splice out the first occurrence
removeFromCurrentRetrievals(array, imagePath) ==
    IF NotInArray(array, imagePath)
    THEN array
    ELSE LET index == CHOOSE i \in 1..Len(array) :
                         array[i] = imagePath /\ \A j \in 1..(i - 1) : array[j] # imagePath
         IN  SubSeq(array, 1, index - 1) \o SubSeq(array, index + 1, Len(array))

(***************************************************************************)
(* Traversal                                                               *)
(***************************************************************************)
isTileTextureInMemory(tile) == tile.imagePath \in DOMAIN gpuResourceCache

\* isTextureExpired: texture.creationTime <= this.expiration
isTextureExpired(texture) == expiration /\ texture = "createdBeforeExpiration"

isTileVisible(dc, tile) == tile.imagePath \in dc.modelviewProjection.visible

tileMeetsRenderingCriteria(dc, tile) ==
    \/ tile.tileMatrix.levelNumber = Len(tileMatrixSet.tileMatrix) - 1
    \/ tile.imagePath \notin dc.modelviewProjection.mustSubdivide

PathOrNull(tile) == IF tile = Null THEN <<>> ELSE tile.imagePath

\* addTile re-retrieving every resident texture, expired or not
addTileAlwaysRefreshes(dc, tile, st) ==
    IF isTileTextureInMemory(tile)
    THEN LET pushed == [st EXCEPT !.currentTiles = Append(@, tile)]
             request == TRUE
             after == IF request THEN retrieveTileImage(tile, pushed) ELSE pushed
         IN  [after EXCEPT !.log = Append(@,
                [tile |-> tile.imagePath, texture |-> TRUE,
                 ancestor |-> PathOrNull(st.currentAncestorTile),
                 pushed |-> <<tile.imagePath>>, requested |-> request,
                 dispatched |-> after.images # st.images])]
    ELSE LET retrieved == retrieveTileImage(tile, st)
             fallback == /\ st.currentAncestorTile # Null
                         /\ isTileTextureInMemory(st.currentAncestorTile)
             after == IF fallback
                      THEN [retrieved EXCEPT
                               !.currentTiles = Append(@, st.currentAncestorTile)]
                      ELSE retrieved
         IN  [after EXCEPT !.log = Append(@,
                [tile |-> tile.imagePath, texture |-> FALSE,
                 ancestor |-> PathOrNull(st.currentAncestorTile),
                 pushed |-> IF fallback THEN <<st.currentAncestorTile.imagePath>>
                            ELSE <<>>,
                 requested |-> TRUE,
                 dispatched |-> after.images # st.images])]

\* addTile pushing the ancestor-of-record without asking whether its texture is
\* in memory
addTilePushesUnloadedAncestor(dc, tile, st) ==
    IF isTileTextureInMemory(tile)
    THEN LET pushed == [st EXCEPT !.currentTiles = Append(@, tile)]
             request == expiration /\ isTextureExpired(gpuResourceCache[tile.imagePath])
             after == IF request THEN retrieveTileImage(tile, pushed) ELSE pushed
         IN  [after EXCEPT !.log = Append(@,
                [tile |-> tile.imagePath, texture |-> TRUE,
                 ancestor |-> PathOrNull(st.currentAncestorTile),
                 pushed |-> <<tile.imagePath>>, requested |-> request,
                 dispatched |-> after.images # st.images])]
    ELSE LET retrieved == retrieveTileImage(tile, st)
             fallback == st.currentAncestorTile # Null
             after == IF fallback
                      THEN [retrieved EXCEPT
                               !.currentTiles = Append(@, st.currentAncestorTile)]
                      ELSE retrieved
         IN  [after EXCEPT !.log = Append(@,
                [tile |-> tile.imagePath, texture |-> FALSE,
                 ancestor |-> PathOrNull(st.currentAncestorTile),
                 pushed |-> IF fallback THEN <<st.currentAncestorTile.imagePath>>
                            ELSE <<>>,
                 requested |-> TRUE,
                 dispatched |-> after.images # st.images])]

\* addTile leaving a tile whose texture is expired out of the render list
\* while its image is retrieved again
addTileDropsExpired(dc, tile, st) ==
    IF isTileTextureInMemory(tile)
    THEN LET request == expiration /\ isTextureExpired(gpuResourceCache[tile.imagePath])
             pushed == IF request THEN st
                       ELSE [st EXCEPT !.currentTiles = Append(@, tile)]
             after == IF request THEN retrieveTileImage(tile, pushed) ELSE pushed
         IN  [after EXCEPT !.log = Append(@,
                [tile |-> tile.imagePath, texture |-> TRUE,
                 ancestor |-> PathOrNull(st.currentAncestorTile),
                 pushed |-> IF request THEN <<>> ELSE <<tile.imagePath>>,
                 requested |-> request,
                 dispatched |-> after.images # st.images])]
    ELSE LET retrieved == retrieveTileImage(tile, st)
             fallback == /\ st.currentAncestorTile # Null
                         /\ isTileTextureInMemory(st.currentAncestorTile)
             after == IF fallback
                      THEN [retrieved EXCEPT
                               !.currentTiles = Append(@, st.currentAncestorTile)]
                      ELSE retrieved
         IN  [after EXCEPT !.log = Append(@,
                [tile |-> tile.imagePath, texture |-> FALSE,
                 ancestor |-> PathOrNull(st.currentAncestorTile),
                 pushed |-> IF fallback THEN <<st.currentAncestorTile.imagePath>>
                            ELSE <<>>,
                 requested |-> TRUE,
                 dispatched |-> after.images # st.images])]

\* addTile, on the traversal's state st (the fields of the layer it touches,
\* threw, and log: one entry per call of addTile)
addTile(dc, tile, st) ==
    IF isTileTextureInMemory(tile)
    THEN LET pushed == [st EXCEPT !.currentTiles = Append(@, tile)]
             request == expiration /\ isTextureExpired(gpuResourceCache[tile.imagePath])
             after == IF request THEN retrieveTileImage(tile, pushed) ELSE pushed
         IN  [after EXCEPT !.log = Append(@,
                [tile |-> tile.imagePath, texture |-> TRUE,
                 ancestor |-> PathOrNull(st.currentAncestorTile),
                 pushed |-> <<tile.imagePath>>, requested |-> request,
                 dispatched |-> after.images # st.images])]
    ELSE LET retrieved == retrieveTileImage(tile, st)
             fallback == /\ st.currentAncestorTile # Null
                         /\ isTileTextureInMemory(st.currentAncestorTile)
             after == IF fallback
                      THEN [retrieved EXCEPT
                               !.currentTiles = Append(@, st.currentAncestorTile)]
                      ELSE retrieved
         IN  [after EXCEPT !.log = Append(@,
                [tile |-> tile.imagePath, texture |-> FALSE,
                 ancestor |-> PathOrNull(st.currentAncestorTile),
                 pushed |-> IF fallback THEN <<st.currentAncestorTile.imagePath>>
                            ELSE <<>>,
                 requested |-> TRUE,
                 dispatched |-> after.images # st.images])]

RECURSIVE addTileOrDescendants(_, _, _)
RECURSIVE addSubTiles(_, _, _, _)

RECURSIVE addSubTilesIgnoringSector(_, _, _, _)
\* the for loop without the test of the layer's sector
addSubTilesIgnoringSector(dc, subTiles, i, st) ==
    IF i > Len(subTiles) \/ st.threw
    THEN st
    ELSE LET child == subTiles[i]
         IN  addSubTilesIgnoringSector(dc, subTiles, i + 1,
                IF isTileVisible(dc, child)
                THEN addTileOrDescendants(dc, child, st)
                ELSE st)

\* the for loop of addTileOrDescendants over subTiles, from index i
addSubTiles(dc, subTiles, i, st) ==
    IF i > Len(subTiles) \/ st.threw
    THEN st
    ELSE LET child == subTiles[i]
         IN  addSubTiles(dc, subTiles, i + 1,
                IF SectorIntersects(sector, child.sector) /\ isTileVisible(dc, child)
                THEN addTileOrDescendants(dc, child, st)
                ELSE st)

\* addTileOrDescendants without the finally block: the ancestor-of-record is
\* not restored when the subtree completes
addTileOrDescendantsNoRestore(dc, tile, st) ==
    LET Call(accepted, after) ==
            [tile |-> tile.imagePath, accepted |-> accepted,
             nextLevel |-> IF accepted THEN -1 ELSE tile.tileMatrix.levelNumber + 1,
             entered |-> PathOrNull(st.currentAncestorTile),
             returned |-> PathOrNull(after.currentAncestorTile),
             threw |-> after.threw]
    IN  IF tileMeetsRenderingCriteria(dc, tile)
        THEN LET after == addTile(dc, tile, st)
             IN  [after EXCEPT !.calls = Append(@, Call(TRUE, after))]
        ELSE LET record == isTileTextureInMemory(tile) \/ tile.tileMatrix.levelNumber = 0
                 st1 == IF record THEN [st EXCEPT !.currentAncestorTile = tile] ELSE st
                 after == IF HasNextLevel(tile)
                          THEN addSubTiles(dc, subdivideToCache(tile, NextLevel(tile)),
                                           1, st1)
                          ELSE [st1 EXCEPT !.threw = TRUE]
             IN  [after EXCEPT !.calls = Append(@, Call(FALSE, after))]

\* st.calls has one entry per call of addTileOrDescendants, added when the
\* call returns or throws: the tile, whether it was accepted, the index (0-based)
\* of the level looked up for its children, and currentAncestorTile at entry
\* and at exit
addTileOrDescendants(dc, tile, st) ==
    LET Call(accepted, after) ==
            [tile |-> tile.imagePath, accepted |-> accepted,
             nextLevel |-> IF accepted THEN -1 ELSE tile.tileMatrix.levelNumber + 1,
             entered |-> PathOrNull(st.currentAncestorTile),
             returned |-> PathOrNull(after.currentAncestorTile),
             threw |-> after.threw]
    IN  IF tileMeetsRenderingCriteria(dc, tile)
        THEN LET after == addTile(dc, tile, st)
             IN  [after EXCEPT !.calls = Append(@, Call(TRUE, after))]
        ELSE LET record == isTileTextureInMemory(tile) \/ tile.tileMatrix.levelNumber = 0
                 ancestorTile == IF record THEN st.currentAncestorTile ELSE Null
                 st1 == IF record THEN [st EXCEPT !.currentAncestorTile = tile] ELSE st
                 \* subdivideToCache of an undefined next level throws
                 st2 == IF HasNextLevel(tile)
                        THEN addSubTiles(dc, subdivideToCache(tile, NextLevel(tile)), 1, st1)
                        ELSE [st1 EXCEPT !.threw = TRUE]
                 \* finally
                 after == IF ancestorTile # Null
                          THEN [st2 EXCEPT !.currentAncestorTile = ancestorTile]
                          ELSE st2
             IN  [after EXCEPT !.calls = Append(@, Call(FALSE, after))]

RECURSIVE addTopLevelTiles(_, _, _, _)
\* the for loop of assembleTiles over topLevelTiles, from index i
addTopLevelTiles(dc, tiles, i, st) ==
    IF i > Len(tiles) \/ st.threw
    THEN st
    ELSE LET tile == tiles[i]
             st1 == [st EXCEPT !.currentAncestorTile = Null]
         IN  addTopLevelTiles(dc, tiles, i + 1,
                IF isTileVisible(dc, tile)
                THEN addTileOrDescendants(dc, tile, st1)
                ELSE st1)

\* assembleTiles without the assignment of an empty array to currentTiles
assembleTilesKeepingList(dc) ==
    LET tiles == IF topLevelTiles = <<>> THEN createTopLevelTiles ELSE topLevelTiles
    IN  addTopLevelTiles(dc, tiles, 1,
            [currentTiles |-> currentTiles, currentRetrievals |-> currentRetrievals,
             images |-> images, currentTilesInvalid |-> FALSE,
             currentAncestorTile |-> currentAncestorTile,
             topLevelTiles |-> tiles, created |-> topLevelTiles = <<>>,
             threw |-> FALSE, log |-> <<>>, calls |-> <<>>])

\* assembleTiles, from the layer's state with currentTilesInvalid already reset;
\* st.created tells whether it called createTopLevelTiles
assembleTiles(dc) ==
    LET tiles == IF topLevelTiles = <<>> THEN createTopLevelTiles ELSE topLevelTiles
    IN  addTopLevelTiles(dc, tiles, 1,
            [currentTiles |-> <<>>, currentRetrievals |-> currentRetrievals,
             images |-> images, currentTilesInvalid |-> FALSE,
             currentAncestorTile |-> currentAncestorTile,
             topLevelTiles |-> tiles, created |-> topLevelTiles = <<>>,
             threw |-> FALSE, log |-> <<>>, calls |-> <<>>])

\* the test of doRender without the comparison of the globe state keys
MustAssembleIgnoringGlobeStateKey(dc) ==
    \/ currentTilesInvalid
    \/ lasTtMVP = Null
    \/ dc.modelviewProjection # lasTtMVP

\* the test of doRender: the layer is invalid, or there is no previous
\* modelview-projection or it differs, or the globe state key differs
MustAssemble(dc) ==
    \/ currentTilesInvalid
    \/ lasTtMVP = Null
    \/ dc.modelviewProjection # lasTtMVP
    \/ dc.globeStateKey # lastGlobeStateKey

(***************************************************************************)
(* Actions of the layer                                                    *)
(***************************************************************************)
\* the operation that produced a state: its name, the path it was about, what
\* it logged and, for a frame, the calls of addTileOrDescendants and whether
\* the top-level tiles were created
Op(op, path, log) ==
    [op |-> op, path |-> path, log |-> log, calls |-> <<>>, created |-> FALSE]

\* doRender(dc): a frame
DoRender(dc) ==
    /\ redrawEvents' = FALSE
    /\ UNCHANGED <<tileMatrixSet, sector, expiration, gpuResourceCache,
                   absentResourceList, negotiationVars, constructionVars, programVars>>
    /\ IF ~dc.terrain
       THEN /\ UNCHANGED <<currentRetrievals, images, currentTiles, currentTilesInvalid,
                           topLevelTiles, currentAncestorTile, lasTtMVP,
                           lastGlobeStateKey>>
            /\ lastOp' = Op("doRender:noTerrain", <<>>, <<>>)
       ELSE IF MustAssemble(dc)
       THEN LET st == assembleTiles(dc)
            IN  /\ currentTiles' = st.currentTiles
                /\ currentRetrievals' = st.currentRetrievals
                /\ images' = st.images
                /\ currentTilesInvalid' = st.currentTilesInvalid
                /\ topLevelTiles' = st.topLevelTiles
                /\ currentAncestorTile' = st.currentAncestorTile
                \* an exception leaves doRender before the two assignments
                /\ lasTtMVP' = IF st.threw THEN lasTtMVP ELSE dc.modelviewProjection
                /\ lastGlobeStateKey' =
                      IF st.threw THEN lastGlobeStateKey ELSE dc.globeStateKey
                /\ lastOp' = [Op(IF st.threw THEN "doRender:threw"
                                   ELSE "doRender:assembled", <<>>, st.log)
                                  EXCEPT !.calls = st.calls, !.created = st.created]
       ELSE /\ UNCHANGED <<currentRetrievals, images, currentTiles, currentTilesInvalid,
                           topLevelTiles, currentAncestorTile>>
            /\ lasTtMVP' = dc.modelviewProjection
            /\ lastGlobeStateKey' = dc.globeStateKey
            /\ lastOp' = Op("doRender:kept", <<>>, <<>>)

\* a call of retrieveTileImage(dc, tile) on its own
RetrieveTileImage(tile) ==
    LET st == retrieveTileImage(tile,
                 [currentRetrievals |-> currentRetrievals, images |-> images,
                  currentTilesInvalid |-> currentTilesInvalid])
    IN  /\ BagCardinality(images) < MaxImages
        /\ currentRetrievals' = st.currentRetrievals
        /\ images' = st.images
        /\ currentTilesInvalid' = st.currentTilesInvalid
        /\ lastOp' = Op("retrieveTileImage", tile.imagePath, <<>>)
        /\ UNCHANGED <<tileMatrixSet, sector, expiration, gpuResourceCache,
                       absentResourceList, currentTiles, topLevelTiles,
                       currentAncestorTile, lasTtMVP, lastGlobeStateKey, redrawEvents,
                       negotiationVars, constructionVars, programVars>>

\* createTexture: a texture for each of the three supported CRS, else undefined
createTexture ==
    IF \/ isEpsg4326Crs(tileMatrixSet.supportedCRS)
       \/ isEpsg3857Crs(tileMatrixSet.supportedCRS)
       \/ isOGCCrs84(tileMatrixSet.supportedCRS)
    THEN "createdAfterExpiration"
    ELSE "undefined"

\* GpuResourceCache.putResource
putResource(cache, key, resource) ==
    [p \in DOMAIN cache \cup {key} |-> IF p = key THEN resource ELSE cache[p]]

\* the body of image.onload after removeFromCurrentRetrievals, without the
\* assignment to currentTilesInvalid
StoreTextureNoInvalidate(imagePath, texture) ==
    IF texture # "undefined"
    THEN /\ gpuResourceCache' = putResource(gpuResourceCache, imagePath, texture)
         /\ absentResourceList' = absentResourceList \ {imagePath}
         /\ redrawEvents' = TRUE
         /\ UNCHANGED currentTilesInvalid
    ELSE UNCHANGED <<gpuResourceCache, currentTilesInvalid, absentResourceList,
                     redrawEvents>>

\* the body of image.onload after removeFromCurrentRetrievals, without the
\* REDRAW event
StoreTextureNoRedraw(imagePath, texture) ==
    IF texture # "undefined"
    THEN /\ gpuResourceCache' = putResource(gpuResourceCache, imagePath, texture)
         /\ currentTilesInvalid' = TRUE
         /\ absentResourceList' = absentResourceList \ {imagePath}
         /\ UNCHANGED redrawEvents
    ELSE UNCHANGED <<gpuResourceCache, currentTilesInvalid, absentResourceList,
                     redrawEvents>>

\* the body of image.onload after removeFromCurrentRetrievals
StoreTexture(imagePath, texture) ==
    IF texture # "undefined"
    THEN /\ gpuResourceCache' = putResource(gpuResourceCache, imagePath, texture)
         /\ currentTilesInvalid' = TRUE
         /\ absentResourceList' = absentResourceList \ {imagePath}
         /\ redrawEvents' = TRUE
    ELSE UNCHANGED <<gpuResourceCache, currentTilesInvalid, absentResourceList,
                     redrawEvents>>

\* image.onload of the Image fetching imagePath
ImageOnLoad(imagePath) ==
    LET texture == createTexture
    IN  /\ BagIn(imagePath, images)
        /\ images' = images (-) SetToBag({imagePath})
        /\ currentRetrievals' = removeFromCurrentRetrievals(currentRetrievals, imagePath)
        /\ StoreTexture(imagePath, texture)
        /\ lastOp' = Op("image.onload", imagePath, <<>>)
        /\ UNCHANGED <<tileMatrixSet, sector, expiration, currentTiles, topLevelTiles,
                       currentAncestorTile, lasTtMVP, lastGlobeStateKey,
                       negotiationVars, constructionVars, programVars>>

\* image.onerror of the Image fetching imagePath
ImageOnError(imagePath) ==
    /\ BagIn(imagePath, images)
    /\ images' = images (-) SetToBag({imagePath})
    /\ currentRetrievals' = removeFromCurrentRetrievals(currentRetrievals, imagePath)
    /\ absentResourceList' = absentResourceList \cup {imagePath}
    /\ lastOp' = Op("image.onerror", imagePath, <<>>)
    /\ UNCHANGED <<tileMatrixSet, sector, expiration, gpuResourceCache, currentTiles,
                   currentTilesInvalid, topLevelTiles, currentAncestorTile, lasTtMVP,
                   lastGlobeStateKey, redrawEvents, negotiationVars, constructionVars, programVars>>

(***************************************************************************)
(* Actions of the layer's environment                                      *)
(***************************************************************************)
\* the absent-resource window of a path elapses: it is no longer reported absent
AbsentWindowElapses(path) ==
    /\ path \in absentResourceList
    /\ absentResourceList' = absentResourceList \ {path}
    /\ lastOp' = Op("environment", <<>>, <<>>)
    /\ UNCHANGED <<tileMatrixSet, sector, expiration, gpuResourceCache,
                   currentRetrievals, images, currentTiles, currentTilesInvalid,
                   topLevelTiles, currentAncestorTile, lasTtMVP, lastGlobeStateKey,
                   redrawEvents, negotiationVars, constructionVars, programVars>>

\* the GPU resource cache evicts a texture under capacity pressure
EvictResource(path) ==
    /\ path \in DOMAIN gpuResourceCache
    /\ gpuResourceCache' = [p \in DOMAIN gpuResourceCache \ {path} |-> gpuResourceCache[p]]
    /\ lastOp' = Op("environment", <<>>, <<>>)
    /\ UNCHANGED <<tileMatrixSet, sector, expiration, absentResourceList,
                   currentRetrievals, images, currentTiles, currentTilesInvalid,
                   topLevelTiles, currentAncestorTile, lasTtMVP, lastGlobeStateKey,
                   redrawEvents, negotiationVars, constructionVars, programVars>>

\* the application sets layer.expiration to the present time: every texture
\* in the cache was created at or before it
SetExpiration ==
    /\ expiration' = TRUE
    /\ gpuResourceCache' = [p \in DOMAIN gpuResourceCache |-> "createdBeforeExpiration"]
    /\ lastOp' = Op("environment", <<>>, <<>>)
    /\ UNCHANGED <<tileMatrixSet, sector, absentResourceList, currentRetrievals, images,
                   currentTiles, currentTilesInvalid, topLevelTiles,
                   currentAncestorTile, lasTtMVP, lastGlobeStateKey, redrawEvents,
                   negotiationVars, constructionVars, programVars>>

(***************************************************************************)
(* Negotiation of the tile matrix sets                                     *)
(***************************************************************************)
\* the most tile matrices a candidate set is given
MaxTileMatrices == 4

\* the shapes a service's tile matrix is drawn from
TileMatrixShapes ==
    { [matrixHeight |-> 1, matrixWidth |-> 1, tileHeight |-> 256, tileWidth |-> 256],
      [matrixHeight |-> 1, matrixWidth |-> 2, tileHeight |-> 256, tileWidth |-> 256],
      [matrixHeight |-> 2, matrixWidth |-> 2, tileHeight |-> 256, tileWidth |-> 256],
      [matrixHeight |-> 2, matrixWidth |-> 4, tileHeight |-> 256, tileWidth |-> 256],
      [matrixHeight |-> 4, matrixWidth |-> 4, tileHeight |-> 256, tileWidth |-> 256],
      [matrixHeight |-> 4, matrixWidth |-> 8, tileHeight |-> 256, tileWidth |-> 256],
      [matrixHeight |-> 2, matrixWidth |-> 2, tileHeight |-> 512, tileWidth |-> 512],
      [matrixHeight |-> 2, matrixWidth |-> 2, tileHeight |-> 256, tileWidth |-> 512] }

CoordinateSystems == {Epsg4326, Epsg3857, Epsg900913, OgcCrs84, Epsg27700}

\* the capabilities of a layer that lists nothing: no style, no dimension, no
\* format, no resource URL, no key-value address, no tile matrix set, no
\* bounding box, no title
BareCapabilities ==
    [identifier |-> "layer", style |-> <<>>, dimension |-> <<>>, format |-> <<>>,
     resourceUrl |-> <<>>, kvpAddress |-> <<>>, tileMatrixSets |-> <<>>,
     boundingBox |-> Null, wgs84BoundingBox |-> Null, titles |-> <<>>]

\* the aspect ratio check with the two ratios exchanged
AspectRatioOkSwapped(crs, tileMatrix) ==
    IF isEpsg3857Crs(crs)
    THEN tileMatrix.matrixHeight * 2 = tileMatrix.matrixWidth
    ELSE IF isEpsg4326Crs(crs) \/ isOGCCrs84(crs)
         THEN tileMatrix.matrixHeight = tileMatrix.matrixWidth
         ELSE FALSE

\* the aspect ratio check of convertTileMatrixSets, dependent on the crs
AspectRatioOk(crs, tileMatrix) ==
    IF isEpsg3857Crs(crs)
    THEN tileMatrix.matrixHeight = tileMatrix.matrixWidth
    ELSE IF isEpsg4326Crs(crs) \/ isOGCCrs84(crs)
         THEN tileMatrix.matrixHeight * 2 = tileMatrix.matrixWidth
         ELSE FALSE

\* the checks a tile matrix other than the first passes before the test of
\* previousHeight
PassesChecks(crs, tileMatrix) ==
    /\ AspectRatioOk(crs, tileMatrix)
    /\ ~(tileMatrix.matrixHeight % 2 # 0 \/ tileMatrix.matrixWidth % 2 # 0)
    /\ tileMatrix.tileHeight = tileMatrix.tileWidth
    /\ tileMatrix.tileHeight = TileSize

RECURSIVE CompatibleTileMatrices(_, _, _, _)
\* the inner loop of convertTileMatrixSets from index j (1-based), with
\* previousHeight and the compatible matrices kept so far
CompatibleTileMatrices(candidate, j, previousHeight, kept) ==
    IF j > Len(candidate.tileMatrix)
    THEN kept
    ELSE LET tileMatrix == candidate.tileMatrix[j]
         IN  IF j = 1
             THEN CompatibleTileMatrices(candidate, j + 1, previousHeight,
                                         Append(kept, tileMatrix))
             ELSE IF ~PassesChecks(candidate.supportedCRS, tileMatrix)
             THEN CompatibleTileMatrices(candidate, j + 1, previousHeight, kept)
             ELSE IF previousHeight = 0 \/ 2 * previousHeight = tileMatrix.matrixHeight
             THEN CompatibleTileMatrices(candidate, j + 1, tileMatrix.matrixHeight,
                                         Append(kept, tileMatrix))
             ELSE CompatibleTileMatrices(candidate, j + 1, previousHeight, kept)

RECURSIVE ConvertFromKeepsSingleLevel(_, _, _)
\* the outer loop keeping the candidates with at least one compatible level
ConvertFromKeepsSingleLevel(candidates, i, converted) ==
    IF i > Len(candidates)
    THEN converted
    ELSE LET candidate == candidates[i]
             crs == candidate.supportedCRS
             compatible == CompatibleTileMatrices(candidate, 1, 0, <<>>)
         IN  IF ~(isEpsg4326Crs(crs) \/ isEpsg3857Crs(crs) \/ isOGCCrs84(crs))
             THEN ConvertFromKeepsSingleLevel(candidates, i + 1, converted)
             ELSE IF Len(compatible) > 0
             THEN ConvertFromKeepsSingleLevel(candidates, i + 1,
                     Append(converted, [identifier |-> candidate.identifier,
                                        supportedCRS |-> crs,
                                        boundingBox |-> candidate.boundingBox,
                                        tileMatrix |-> compatible]))
             ELSE ConvertFromKeepsSingleLevel(candidates, i + 1, converted)

RECURSIVE ConvertFrom(_, _, _)
\* the outer loop of convertTileMatrixSets from index i (1-based)
ConvertFrom(candidates, i, converted) ==
    IF i > Len(candidates)
    THEN converted
    ELSE LET candidate == candidates[i]
             crs == candidate.supportedCRS
             compatible == CompatibleTileMatrices(candidate, 1, 0, <<>>)
         IN  IF ~(isEpsg4326Crs(crs) \/ isEpsg3857Crs(crs) \/ isOGCCrs84(crs))
             THEN ConvertFrom(candidates, i + 1, converted)
             ELSE IF Len(compatible) > 1
             THEN ConvertFrom(candidates, i + 1,
                     Append(converted, [identifier |-> candidate.identifier,
                                        supportedCRS |-> crs,
                                        boundingBox |-> candidate.boundingBox,
                                        tileMatrix |-> compatible]))
             ELSE ConvertFrom(candidates, i + 1, converted)

\* WmtsLayer.convertTileMatrixSets(layerCaps): it throws ArgumentError or
\* returns the converted sets; caps.tileMatrixSets is what
\* layerCaps.getLayerSupportedTileMatrixSets() gives
convertTileMatrixSets(caps) ==
    IF caps = Null
    THEN [threw |-> TRUE, returned |-> <<>>]
    ELSE [threw |-> FALSE, returned |-> ConvertFrom(caps.tileMatrixSets, 1, <<>>)]

\* the capabilities document lists one more tile matrix of the candidate set
AddTileMatrix(shape) ==
    /\ convertedTileMatrixSets = Null
    /\ Len(layerCaps.tileMatrixSets[1].tileMatrix) < MaxTileMatrices
    /\ layerCaps' = [layerCaps EXCEPT !.tileMatrixSets[1].tileMatrix =
                        Append(@, [levelNumber |-> Len(@),
                                   matrixHeight |-> shape.matrixHeight,
                                   matrixWidth |-> shape.matrixWidth,
                                   tileHeight |-> shape.tileHeight,
                                   tileWidth |-> shape.tileWidth])]
    /\ UNCHANGED <<layerVars, lastOp, convertedTileMatrixSets, constructionVars, programVars>>

\* a call of WmtsLayer.convertTileMatrixSets(layerCaps)
ConvertTileMatrixSets ==
    /\ convertedTileMatrixSets = Null
    /\ convertedTileMatrixSets' = convertTileMatrixSets(layerCaps)
    /\ UNCHANGED <<layerVars, lastOp, layerCaps, constructionVars, programVars>>

(***************************************************************************)
(* The configuration made from a layer's capabilities                      *)
(***************************************************************************)
\* the most formats, resource URLs and tile matrix sets a layer is given
MaxFormats == 2

MaxResourceUrls == 2

MaxTileMatrixSets == 2

ImageFormats == {"image/png", "image/jpeg", "image/tiff", "image/gif", "image/webp"}

\* the formats the resource URLs of a service are drawn from
ResourceFormats == {"image/png", "image/jpeg"}

Level(levelNumber, matrixHeight, matrixWidth, size) ==
    [identifier |-> ToString(levelNumber), levelNumber |-> levelNumber,
     matrixHeight |-> matrixHeight, matrixWidth |-> matrixWidth,
     tileHeight |-> size, tileWidth |-> size]

\* the tile matrix sets a service is drawn from: three usable geographic
\* levels; a Mercator set with two usable levels of three; a set of an
\* unsupported CRS; a CRS84 set whose only usable level is level 0
TileMatrixSetCatalog ==
    { [identifier |-> "geographic", supportedCRS |-> Epsg4326, boundingBox |-> Null,
       tileMatrix |-> <<Level(0, 1, 2, 256), Level(1, 2, 4, 256), Level(2, 4, 8, 256)>>],
      [identifier |-> "mercator", supportedCRS |-> Epsg3857, boundingBox |-> Null,
       tileMatrix |-> <<Level(0, 1, 1, 256), Level(1, 2, 2, 512), Level(2, 2, 2, 256)>>],
      [identifier |-> "national", supportedCRS |-> Epsg27700, boundingBox |-> Null,
       tileMatrix |-> <<Level(0, 1, 1, 256), Level(1, 2, 2, 256)>>],
      [identifier |-> "flat", supportedCRS |-> OgcCrs84, boundingBox |-> Null,
       tileMatrix |-> <<Level(0, 1, 2, 256), Level(1, 2, 2, 256)>>] }

\* a bounding box of the capabilities: corners are <<longitude, latitude>>
BoundingBox(crs, minLon, minLat, maxLon, maxLat) ==
    [crs |-> crs, lowerCorner |-> <<minLon, minLat>>, upperCorner |-> <<maxLon, maxLat>>]

\* the capabilities of a layer with styles, a time dimension, bounding boxes
\* and a title
RichCapabilities ==
    [BareCapabilities EXCEPT
        !.style = <<[identifier |-> "plain", isDefault |-> FALSE],
                    [identifier |-> "default", isDefault |-> TRUE]>>,
        !.dimension = <<[identifier |-> "Elevation", default |-> "0"],
                        [identifier |-> "Time", default |-> "2020-01-01"]>>,
        !.boundingBox = BoundingBox(Epsg3857, -20, -10, 20, 10),
        !.wgs84BoundingBox = BoundingBox(OgcCrs84, -180, -90, 180, 90),
        !.titles = <<[value |-> "A layer"]>>]

\* the first index at which a sequence of test results is true, 0 if none
FirstIndex(tests) ==
    IF \E i \in 1..Len(tests) : tests[i]
    THEN CHOOSE i \in 1..Len(tests) : tests[i] /\ \A j \in 1..(i - 1) : ~tests[j]
    ELSE 0

\* the identifier of the first style marked as default, else undefined
DefaultStyle(style) ==
    LET i == FirstIndex([k \in 1..Len(style) |-> style[k].isDefault])
    IN  IF i = 0 THEN Undefined ELSE style[i].identifier

\* String.prototype.toLowerCase, on the identifiers of dimensions
ToLowerCase(str) == IF str \in {"Time", "TIME", "time"} THEN "time" ELSE str

\* the default of the first dimension named time, else undefined
DefaultTime(dimension) ==
    LET i == FirstIndex([k \in 1..Len(dimension) |->
                            ToLowerCase(dimension[k].identifier) = "time"])
    IN  IF i = 0 THEN Undefined ELSE dimension[i].default

\* formats.indexOf(f) >= 0
Advertises(formats, f) == \E i \in 1..Len(formats) : formats[i] = f

\* the image format with image/jpeg preferred to image/png
ImageFormatJpegFirst(formats) ==
    IF Advertises(formats, "image/jpeg") THEN "image/jpeg"
    ELSE IF Advertises(formats, "image/png") THEN "image/png"
    ELSE IF Advertises(formats, "image/tiff") THEN "image/tiff"
    ELSE IF Advertises(formats, "image/gif") THEN "image/gif"
    ELSE IF Len(formats) > 0 THEN formats[1] ELSE Undefined

\* "Determine image format": formats[0] of an empty array is undefined
ImageFormat(formats) ==
    IF Advertises(formats, "image/png") THEN "image/png"
    ELSE IF Advertises(formats, "image/jpeg") THEN "image/jpeg"
    ELSE IF Advertises(formats, "image/tiff") THEN "image/tiff"
    ELSE IF Advertises(formats, "image/gif") THEN "image/gif"
    ELSE IF Len(formats) > 0 THEN formats[1] ELSE Undefined

\* the template of the first resource URL of the chosen format, else undefined
ResourceUrl(caps, format) ==
    LET i == FirstIndex([k \in 1..Len(caps.resourceUrl) |->
                            caps.resourceUrl[k].format = format])
    IN  IF i = 0 THEN <<>> ELSE caps.resourceUrl[i].template

\* WmsUrlBuilder.fixGetMapString: the address ends with the query separator
fixGetMapString(url) == IF url[Len(url)] = "?" THEN url ELSE Append(url, "?")

\* the key-value address, taken whether or not the layer has resource URLs
ServiceUrlAlways(caps) ==
    IF caps.kvpAddress # <<>> THEN fixGetMapString(caps.kvpAddress) ELSE <<>>

\* the key-value address, taken only when the layer has no resource URLs
ServiceUrl(caps) ==
    IF Len(caps.resourceUrl) > 0 THEN <<>>
    ELSE IF caps.kvpAddress # <<>> THEN fixGetMapString(caps.kvpAddress)
    ELSE <<>>

\* the outcome of a call that throws ArgumentError
Thrown == [threw |-> TRUE, config |-> Null]

\* WmtsLayer.createConfigurationFromLayer(layerCaps): it throws ArgumentError
\* or returns a configuration
createConfigurationFromLayer(caps) ==
    IF caps = Null
    THEN Thrown
    ELSE LET format == ImageFormat(caps.format)
             template == ResourceUrl(caps, format)
             address == ServiceUrl(caps)
             compatibleTileMatrixSets == convertTileMatrixSets(caps).returned
             \* tms.tileMatrix.length > highestResTileMatrixSet.length compares
             \* with undefined and is false: the first set stays the highest
             highestResTileMatrixSet == compatibleTileMatrixSets[1]
             \* after the loop tms is the last set
             tms == compatibleTileMatrixSets[Len(compatibleTileMatrixSets)]
         IN  IF IsFalsy(format)
             THEN Thrown
             ELSE IF template = <<>> /\ address = <<>>
             THEN Thrown
             ELSE IF ~(Len(compatibleTileMatrixSets) > 0)
             THEN Thrown
             ELSE [threw |-> FALSE,
                   config |->
                     [layerIdentifier |-> caps.identifier,
                      styleIdentifier |-> DefaultStyle(caps.style),
                      timeString |-> DefaultTime(caps.dimension),
                      imageFormat |-> format,
                      resourceUrl |-> template,
                      serviceUrl |-> address,
                      tileMatrixSet |-> tms,
                      boundingBox |-> caps.boundingBox,
                      wgs84BoundingBox |-> caps.wgs84BoundingBox,
                      title |-> IF Len(caps.titles) > 0 THEN caps.titles[1].value
                                ELSE caps.identifier]]

\* no function of the negotiation has been called yet
NotCalled ==
    /\ convertedTileMatrixSets = Null
    /\ lastOp.op = "capabilities"

\* the capabilities document lists one more format of the layer
AddFormat(format) ==
    /\ NotCalled
    /\ layerCaps # Null
    /\ Len(layerCaps.format) < MaxFormats
    /\ ~Advertises(layerCaps.format, format)
    /\ layerCaps' = [layerCaps EXCEPT !.format = Append(@, format)]
    /\ UNCHANGED <<layerVars, lastOp, convertedTileMatrixSets, constructionVars, programVars>>

\* the capabilities document lists one more resource URL of the layer
AddResourceUrl(format) ==
    /\ NotCalled
    /\ layerCaps # Null
    /\ Len(layerCaps.resourceUrl) < MaxResourceUrls
    /\ layerCaps' = [layerCaps EXCEPT !.resourceUrl =
                        Append(@, [format |-> format,
                                   template |-> <<ToString(Len(@))>> \o RestTemplate])]
    /\ UNCHANGED <<layerVars, lastOp, convertedTileMatrixSets, constructionVars, programVars>>

\* the capabilities document gives the service's GetTile key-value address
SetKvpAddress ==
    /\ NotCalled
    /\ layerCaps # Null
    /\ layerCaps.kvpAddress = <<>>
    /\ layerCaps' = [layerCaps EXCEPT !.kvpAddress = <<"http://service/wmts">>]
    /\ UNCHANGED <<layerVars, lastOp, convertedTileMatrixSets, constructionVars, programVars>>

\* the capabilities document links one more tile matrix set to the layer
AddTileMatrixSet(set) ==
    /\ NotCalled
    /\ layerCaps # Null
    /\ Len(layerCaps.tileMatrixSets) < MaxTileMatrixSets
    /\ \A i \in 1..Len(layerCaps.tileMatrixSets) :
          layerCaps.tileMatrixSets[i].identifier # set.identifier
    /\ layerCaps' = [layerCaps EXCEPT !.tileMatrixSets = Append(@, set)]
    /\ UNCHANGED <<layerVars, lastOp, convertedTileMatrixSets, constructionVars, programVars>>

\* a call of WmtsLayer.createConfigurationFromLayer(layerCaps)
CreateConfigurationFromLayer ==
    LET outcome == createConfigurationFromLayer(layerCaps)
    IN  /\ NotCalled
        /\ config' = outcome.config
        /\ lastOp' = Op(IF outcome.threw
                        THEN "createConfigurationFromLayer:ArgumentError"
                        ELSE "createConfigurationFromLayer", <<>>, <<>>)
        /\ UNCHANGED <<layerVars, negotiationVars, identityVars, programVars>>

(***************************************************************************)
(* The constructor                                                         *)
(***************************************************************************)
\* new Sector(minLatitude, maxLatitude, minLongitude, maxLongitude), in degrees
GeographicSector(minLatitude, maxLatitude, minLongitude, maxLongitude) ==
    [minLatitude |-> minLatitude, maxLatitude |-> maxLatitude,
     minLongitude |-> minLongitude, maxLongitude |-> maxLongitude]

\* the sector of a bounding box
SectorOfBox(box) ==
    GeographicSector(box.lowerCorner[2], box.upperCorner[2],
                     box.lowerCorner[1], box.upperCorner[1])

\* the sector determination that leaves the sector undefined where the
\* constructor finds no bounding box at all
DetermineSectorNeverThrows(cfg) ==
    IF cfg.wgs84BoundingBox # Null
    THEN [threw |-> FALSE, sector |-> SectorOfBox(cfg.wgs84BoundingBox)]
    ELSE IF cfg.tileMatrixSet.boundingBox # Null
    THEN [threw |-> FALSE, sector |-> SectorOfBox(cfg.tileMatrixSet.boundingBox)]
    ELSE [threw |-> FALSE, sector |-> Null]

\* "Determine the layer's sector if possible": the constructor throws, or
\* assigns this.sector, or leaves it undefined
DetermineSector(cfg) ==
    IF cfg.wgs84BoundingBox = Null /\ cfg.boundingBox = Null
    THEN IF cfg.tileMatrixSet.boundingBox # Null
         THEN [threw |-> FALSE, sector |-> SectorOfBox(cfg.tileMatrixSet.boundingBox)]
         ELSE [threw |-> TRUE, sector |-> Null]
    ELSE IF cfg.wgs84BoundingBox # Null
    THEN [threw |-> FALSE, sector |-> SectorOfBox(cfg.wgs84BoundingBox)]
    ELSE IF /\ cfg.tileMatrixSet.boundingBox # Null
            /\ isEpsg4326Crs(cfg.tileMatrixSet.boundingBox.crs)
    THEN [threw |-> FALSE, sector |-> SectorOfBox(cfg.tileMatrixSet.boundingBox)]
    ELSE IF isEpsg4326Crs(cfg.tileMatrixSet.supportedCRS)
    THEN [threw |-> TRUE, sector |-> Null]
    ELSE [threw |-> FALSE, sector |-> Null]

\* new WmtsLayer(config): it throws ArgumentError or assigns the layer's fields
WmtsLayer(cfg) ==
    IF cfg = Null
    THEN [threw |-> TRUE]
    ELSE IF IsFalsy(cfg.imageFormat)
    THEN [threw |-> TRUE]
    ELSE IF cfg.resourceUrl = <<>> /\ cfg.serviceUrl = <<>>
    THEN [threw |-> TRUE]
    ELSE IF cfg.tileMatrixSet = Null
    THEN [threw |-> TRUE]
    ELSE IF DetermineSector(cfg).threw
    THEN [threw |-> TRUE]
    ELSE [threw |-> FALSE,
          layerIdentifier |-> cfg.layerIdentifier,
          styleIdentifier |-> cfg.styleIdentifier,
          timeString |-> cfg.timeString,
          imageFormat |-> cfg.imageFormat,
          resourceUrl |-> cfg.resourceUrl,
          serviceUrl |-> cfg.serviceUrl,
          tileMatrixSet |-> cfg.tileMatrixSet,
          sector |-> DetermineSector(cfg).sector]

\* the bounding boxes a configuration is drawn from
BoundingBoxes ==
    { BoundingBox(Epsg4326, -180, -90, 180, 90),
      BoundingBox(Epsg3857, -20, -10, 20, 10) }

\* the tile matrix sets a configuration is drawn from
ConfiguredTileMatrixSets ==
    { [identifier |-> "set", supportedCRS |-> crs, boundingBox |-> box,
       tileMatrix |-> <<Level(0, 1, 2, 256), Level(1, 2, 4, 256)>>] :
         crs \in {Epsg4326, Epsg3857, OgcCrs84}, box \in {Null} \cup BoundingBoxes }

\* the configurations an application gives to the constructor
Configurations ==
    {Null} \cup
    [layerIdentifier : {Undefined, "layer"},
     styleIdentifier : {Undefined, "default"},
     timeString : {Undefined},
     imageFormat : {Undefined, "image/png"},
     resourceUrl : {<<>>, RestTemplate},
     serviceUrl : {<<>>, <<"http://service/wmts", "?">>},
     tileMatrixSet : {Null} \cup ConfiguredTileMatrixSets,
     boundingBox : {Null, BoundingBox(Epsg3857, -20, -10, 20, 10)},
     wgs84BoundingBox : {Null, BoundingBox(OgcCrs84, -180, -90, 180, 90)},
     title : {"A layer"}]

\* a call of new WmtsLayer(config)
Construct ==
    LET layer == WmtsLayer(config)
    IN  /\ lastOp.op = "configuration"
        /\ IF layer.threw
           THEN /\ lastOp' = Op("constructor:ArgumentError", <<>>, <<>>)
                /\ UNCHANGED <<tileMatrixSet, sector, identityVars>>
           ELSE /\ lastOp' = Op("constructor", <<>>, <<>>)
                /\ layerIdentifier' = layer.layerIdentifier
                /\ styleIdentifier' = layer.styleIdentifier
                /\ timeString' = layer.timeString
                /\ imageFormat' = layer.imageFormat
                /\ resourceUrl' = layer.resourceUrl
                /\ serviceUrl' = layer.serviceUrl
                /\ tileMatrixSet' = layer.tileMatrixSet
                /\ sector' = layer.sector
                /\ detailControl' = DefaultDetailControl
        /\ UNCHANGED <<expiration, gpuResourceCache, absentResourceList,
                       currentRetrievals, images, currentTiles, currentTilesInvalid,
                       topLevelTiles, currentAncestorTile, lasTtMVP, lastGlobeStateKey,
                       redrawEvents, negotiationVars, config, programVars>>

(***************************************************************************)
(* Tile addressing                                                         *)
(* Degrees are integers and the layers are chosen so that the divisions of *)
(* createTile4326 and createTileCrs84 are exact; pixel coordinates are     *)
(* counted in half pixels.                                                 *)
(***************************************************************************)
\* Sector.prototype.deltaLatitude and deltaLongitude
deltaLatitude(s) == s.maxLatitude - s.minLatitude

deltaLongitude(s) == s.maxLongitude - s.minLongitude

\* createTile4326 with the tile's width taken from the latitude span
createTile4326SquareTiles(tileMatrix, row, column) ==
    LET tileDeltaLat == deltaLatitude(sector) \div tileMatrix.matrixHeight
        maxLat == tileMatrix.topLeftCorner[1] - row * tileDeltaLat
        minLat == maxLat - tileDeltaLat
        minLon == tileMatrix.topLeftCorner[2] + tileDeltaLat * column
        maxLon == minLon + deltaLongitude(sector) \div tileMatrix.matrixWidth
    IN  makeTile(GeographicSector(minLat, maxLat, minLon, maxLon), tileMatrix, row, column)

\* createTile4326: topLeftCorner is [latitude, longitude]
createTile4326(tileMatrix, row, column) ==
    LET tileDeltaLat == deltaLatitude(sector) \div tileMatrix.matrixHeight
        tileDeltaLon == deltaLongitude(sector) \div tileMatrix.matrixWidth
        maxLat == tileMatrix.topLeftCorner[1] - row * tileDeltaLat
        minLat == maxLat - tileDeltaLat
        minLon == tileMatrix.topLeftCorner[2] + tileDeltaLon * column
        maxLon == minLon + tileDeltaLon
    IN  makeTile(GeographicSector(minLat, maxLat, minLon, maxLon), tileMatrix, row, column)

\* createTileCrs84: topLeftCorner is [longitude, latitude]
createTileCrs84(tileMatrix, row, column) ==
    LET tileDeltaLat == deltaLatitude(sector) \div tileMatrix.matrixHeight
        tileDeltaLon == deltaLongitude(sector) \div tileMatrix.matrixWidth
        maxLat == tileMatrix.topLeftCorner[2] - row * tileDeltaLat
        minLat == maxLat - tileDeltaLat
        minLon == tileMatrix.topLeftCorner[1] + tileDeltaLon * column
        maxLon == minLon + tileDeltaLon
    IN  makeTile(GeographicSector(minLat, maxLat, minLon, maxLon), tileMatrix, row, column)

\* WWMath.clamp
clamp(value, minimum, maximum) ==
    IF value > maximum THEN maximum ELSE IF value < minimum THEN minimum ELSE value

\* computeTileMatrixValues3857: spans are counted in pixel spans of a scale
\* denominator of 1 (0.28e-3 m)
computeTileMatrixValues3857(tileMatrix) ==
    LET pixelSpan == tileMatrix.scaleDenominator
        tileSpanX == tileMatrix.tileWidth * pixelSpan
        tileSpanY == tileMatrix.tileHeight * pixelSpan
        tileMatrixMaxX == tileMatrix.topLeftCorner[1] + tileSpanX * tileMatrix.matrixWidth
        tileMatrixMinY == tileMatrix.topLeftCorner[2] - tileSpanY * tileMatrix.matrixHeight
    IN  [tileMatrixDeltaX |-> tileMatrixMaxX - tileMatrix.topLeftCorner[1],
         tileMatrixDeltaY |-> tileMatrix.topLeftCorner[2] - tileMatrixMinY,
         mapWidth |-> tileMatrix.tileWidth * tileMatrix.matrixWidth,
         mapHeight |-> tileMatrix.tileHeight * tileMatrix.matrixHeight]

\* swX, neY, neX and swY of createTile3857, in half pixels
PixelExtent3857(tileMatrix, row, column) ==
    LET values == computeTileMatrixValues3857(tileMatrix)
        swX == clamp(2 * column * tileMatrix.tileWidth - 1, 0, 2 * values.mapWidth)
        neY == clamp(2 * row * tileMatrix.tileHeight - 1, 0, 2 * values.mapHeight)
        neX == clamp(swX + 2 * tileMatrix.tileWidth + 1, 0, 2 * values.mapWidth)
        swY == clamp(neY + 2 * tileMatrix.tileHeight + 1, 0, 2 * values.mapHeight)
    IN  [swX |-> swX, neY |-> neY, neX |-> neX, swY |-> swY]

\* createTile3857: the sector is given by the projected coordinates of its
\* corners (WWMath.epsg3857ToEpsg4326 turns them into degrees), in half
\* pixel spans
createTile3857(tileMatrix, row, column) ==
    LET values == computeTileMatrixValues3857(tileMatrix)
        extent == PixelExtent3857(tileMatrix, row, column)
        Lon(x) == 2 * tileMatrix.topLeftCorner[1]
                     + (x * values.tileMatrixDeltaX) \div values.mapWidth
        Lat(y) == 2 * tileMatrix.topLeftCorner[2]
                     - (y * values.tileMatrixDeltaY) \div values.mapHeight
    IN  makeTile([sw |-> <<Lon(extent.swX), Lat(extent.swY)>>,
                  ne |-> <<Lon(extent.neX), Lat(extent.neY)>>],
                 tileMatrix, row, column)

\* the layers whose tiles are addressed: a CRS, a sector, and two levels
\* with their top left corners
AddressedLayers ==
    { [WideLayer EXCEPT
          !.sector = box,
          !.tileMatrixSet =
              [identifier |-> "set", supportedCRS |-> crs,
               tileMatrix |->
                  [k \in 1..2 |->
                      [identifier |-> ToString(k - 1), levelNumber |-> k - 1,
                       matrixHeight |-> shapes[k][1], matrixWidth |-> shapes[k][2],
                       tileHeight |-> TileSize, tileWidth |-> TileSize,
                       scaleDenominator |-> 8 \div shapes[k][1],
                       topLeftCorner |->
                          IF isEpsg4326Crs(crs)
                          THEN <<box.maxLatitude, box.minLongitude>>
                          ELSE <<box.minLongitude, box.maxLatitude>>]]]] :
        crs \in {Epsg4326, OgcCrs84, Epsg3857},
        box \in {GeographicSector(-90, 90, -180, 180), GeographicSector(0, 40, 8, 88)},
        shapes \in {<<<<1, 2>>, <<2, 4>>>>, <<<<2, 4>>, <<4, 8>>>>,
                    <<<<1, 1>>, <<4, 4>>>>} }

\* a call of createTile(tileMatrix, row, column), by createTopLevelTiles or
\* by the subdivision of a tile
CreateTile(tileMatrix, row, column) ==
    LET crs == tileMatrixSet.supportedCRS
        tile == IF isEpsg4326Crs(crs) THEN createTile4326(tileMatrix, row, column)
                ELSE IF isEpsg3857Crs(crs) THEN createTile3857(tileMatrix, row, column)
                ELSE createTileCrs84(tileMatrix, row, column)
        extent == IF ~isEpsg4326Crs(crs) /\ isEpsg3857Crs(crs)
                  THEN PixelExtent3857(tileMatrix, row, column)
                  ELSE Null
    IN  /\ row \in 0..(tileMatrix.matrixHeight - 1)
        /\ column \in 0..(tileMatrix.matrixWidth - 1)
        /\ lastOp' = Op("createTile", <<tileMatrix.levelNumber, row, column>>,
                        [tile |-> tile, extent |-> extent])
        /\ UNCHANGED <<layerVars, negotiationVars, constructionVars, programVars>>

(***************************************************************************)
(* Mercator unprojection                                                   *)
(* A number that may be NaN is a record [nan, value]; fractions are kept   *)
(* as a numerator over a stated denominator.                               *)
(***************************************************************************)
\* the largest width and height of a retrieved image
MaxImageWidth == 2

MaxImageHeight == 3

\* WWMath.gudermannianInverse, the forward Mercator transform of a latitude:
\* an odd, strictly increasing function, here the numerator of
\* (n/d)^3 + n/d over the denominator d^3
gudermannianInverse(n, d) == n * n * n + n * d * d

\* srcRow of createTexture3857 for the destination row y; image.height - 1
\* is the divisor of y, and 0/0 is NaN
srcRow(image, tileSector, y) ==
    LET d == image.height - 1
    IN  IF d = 0
        THEN [nan |-> TRUE, value |-> 0]
        ELSE LET \* lat = sy * deltaLatitude + minLatitude, over d
                 lat == (d - y) * deltaLatitude(tileSector) + tileSector.minLatitude * d
                 \* g, tMin and tMax over d^3
                 g == gudermannianInverse(lat, d)
                 tMin == gudermannianInverse(tileSector.minLatitude, 1) * d * d * d
                 tMax == gudermannianInverse(tileSector.maxLatitude, 1) * d * d * d
                 \* dy = 1 - (g - tMin) / (tMax - tMin), over tMax - tMin
                 dy == clamp(tMax - g, 0, tMax - tMin)
             IN  [nan |-> FALSE, value |-> (dy * d) \div (tMax - tMin)]

\* createTexture3857: the image data put on the destination canvas; a read
\* of srcImageData.data at NaN is undefined, which the clamped byte array of
\* the destination stores as 0
createTexture3857(tile, image) ==
    [width |-> image.width,
     height |-> image.height,
     data |-> [kDest \in 0..(4 * image.width * image.height - 1) |->
                 LET x == (kDest \div 4) % image.width
                     y == (kDest \div 4) \div image.width
                     row == srcRow(image, tile.sector, y)
                 IN  IF row.nan
                     THEN 0
                     ELSE image.data[4 * (x + row.value * image.width) + (kDest % 4)]]]

\* the images a service returns: their pixels differ from one another and
\* from 0
Images ==
    { [width |-> w, height |-> h,
       data |-> [k \in 0..(4 * w * h - 1) |-> (7 * k + first) % 256]] :
        w \in 1..MaxImageWidth, h \in 1..MaxImageHeight, first \in {1, 100} }

\* Web Mercator tiles by the latitudes of their sectors
MercatorTiles ==
    { makeTile(GeographicSector(lat[1], lat[2], 0, 90),
               tileMatrixSet.tileMatrix[1], 0, 0) :
        lat \in {<<0, 40>>, <<40, 80>>, <<-60, 60>>} }

\* a call of createTexture3857(dc, tile, image) by image.onload
CreateTexture3857(tile, image) ==
    /\ ~isEpsg4326Crs(tileMatrixSet.supportedCRS)
    /\ isEpsg3857Crs(tileMatrixSet.supportedCRS)
    /\ lastOp' = Op("createTexture3857", tile.imagePath,
                    [tile |-> tile, image |-> image,
                     destCanvas |-> createTexture3857(tile, image)])
    /\ UNCHANGED <<layerVars, negotiationVars, constructionVars, programVars>>

\* CanvasRenderingContext2D.createImageData(sw, sh) throws an IndexSizeError
\* when one of its arguments is zero
createImageDataThrows(image) == image.width = 0 \/ image.height = 0

\* createTexture(dc, tile, image) leaves by an exception: the layer is a Web
\* Mercator one and createTexture3857 asks for image data of the image's size
createTextureThrows(image) ==
    /\ ~isEpsg4326Crs(tileMatrixSet.supportedCRS)
    /\ isEpsg3857Crs(tileMatrixSet.supportedCRS)
    /\ createImageDataThrows(image)

\* the sizes of the images a fetch can load; an image without intrinsic
\* dimensions has width and height 0
LoadedImages ==
    {[width |-> w, height |-> h] : w \in 0..MaxImageWidth, h \in 0..MaxImageHeight}

\* image.onload of the Image fetching imagePath, by the image that loaded:
\* createTexture is the first call of the callback, and an exception in it
\* leaves the callback before removeFromCurrentRetrievals
ImageOnLoadOf(imagePath, image) ==
    IF createTextureThrows(image)
    THEN /\ BagIn(imagePath, images)
         /\ images' = images (-) SetToBag({imagePath})
         /\ lastOp' = Op("image.onload:threw", imagePath, <<>>)
         /\ UNCHANGED <<tileMatrixSet, sector, expiration, gpuResourceCache,
                        absentResourceList, currentRetrievals, currentTiles,
                        currentTilesInvalid, topLevelTiles, currentAncestorTile,
                        lasTtMVP, lastGlobeStateKey, redrawEvents, negotiationVars,
                        constructionVars, programVars>>
    ELSE ImageOnLoad(imagePath)

(***************************************************************************)
(* The request of a tile                                                   *)
(***************************************************************************)
\* a resource URL template with the optional {Time} token
TimeTemplate ==
    <<"http://tiles/", "{Style}", "/", "{Time}", "/", "{TileMatrixSet}", "/",
      "{TileMatrix}", "/", "{TileRow}", "/", "{TileCol}", ".png">>

\* the layers whose tiles are requested: in template mode or in key-value
\* mode, with and without a style and a time string
RequestingLayers ==
    LET layers ==
          { [WideLayer EXCEPT !.resourceUrl = template, !.serviceUrl = address,
                              !.styleIdentifier = style, !.timeString = time,
                              !.imageFormat = format] :
              template \in {<<>>, RestTemplate, TimeTemplate},
              address \in {<<>>, <<"http://service/wmts", "?">>},
              style \in {Undefined, "default"},
              time \in {Undefined, "2020-01-01"},
              format \in {"image/png", "image/jpeg"} }
    \* the constructor throws for a configuration without any URL
    IN  {layer \in layers : ~(layer.resourceUrl = <<>> /\ layer.serviceUrl = <<>>)}

\* a call of resourceUrlForTile(tile, this.imageFormat)
ResourceUrlForTile(tile) ==
    /\ lastOp' = Op("resourceUrlForTile", tile.imagePath,
                    resourceUrlForTile(tile, imageFormat))
    /\ UNCHANGED <<layerVars, negotiationVars, constructionVars, programVars>>

(***************************************************************************)
(* StarFieldProgram (the first AMD module of the file): the uniform        *)
(* loaders. gl is the sequence of uniform calls the WebGL context received.*)
(***************************************************************************)
\* the most uniform calls the context is given
MaxUniformCalls == 2

\* undefined, as an argument
UndefinedValue == [undefined |-> TRUE]

\* a number, as an argument
Number(n) == [number |-> n]

\* a modelview-projection matrix, as an argument
Matrix == [matrix |-> "modelviewProjection"]

\* value == null: true of null and of undefined only
EqualsNull(value) == value \in {Null, UndefinedValue}

\* !value, for null, undefined, an object or a number
Not(value) == EqualsNull(value) \/ value = Number(0)

\* the uniform locations the constructor looks up
mvpMatrixLocation == "mvpMatrix"

numDaysLocation == "numDays"

magnitudeRangeLocation == "magnitudeRange"

UniformCall(name, location, values) ==
    [call |-> name, location |-> location, values |-> values]

\* GpuProgram.prototype.loadUniformMatrix: the matrix is loaded with one call
\* of gl.uniformMatrix4fv
loadUniformMatrix(context, matrix, location) ==
    Append(context, UniformCall("uniformMatrix4fv", location, <<matrix>>))

\* loadModelviewProjection(gl, matrix)
loadModelviewProjection(context, matrix) ==
    IF Not(matrix)
    THEN [threw |-> TRUE, gl |-> context]
    ELSE [threw |-> FALSE, gl |-> loadUniformMatrix(context, matrix, mvpMatrixLocation)]

\* loadNumDays testing !numDays
loadNumDaysRejectsZero(context, numDays) ==
    IF Not(numDays)
    THEN [threw |-> TRUE, gl |-> context]
    ELSE [threw |-> FALSE,
          gl |-> Append(context, UniformCall("uniform1f", numDaysLocation, <<numDays>>))]

\* loadNumDays(gl, numDays)
loadNumDays(context, numDays) ==
    IF EqualsNull(numDays)
    THEN [threw |-> TRUE, gl |-> context]
    ELSE [threw |-> FALSE,
          gl |-> Append(context, UniformCall("uniform1f", numDaysLocation, <<numDays>>))]

\* loadMagnitudeRange(gl, minMag, maxMag)
loadMagnitudeRange(context, minMag, maxMag) ==
    IF EqualsNull(minMag)
    THEN [threw |-> TRUE, gl |-> context]
    ELSE IF EqualsNull(maxMag)
    THEN [threw |-> TRUE, gl |-> context]
    ELSE [threw |-> FALSE,
          gl |-> Append(context, UniformCall("uniform2f", magnitudeRangeLocation,
                                             <<minMag, maxMag>>))]

\* the matrices and the numbers a caller passes
MatrixArguments == {Null, UndefinedValue, Matrix}

NumberArguments == {Null, UndefinedValue, Number(-1), Number(0), Number(1)}

\* the outcome of a loader becomes the state of the context
Loaded(name, arguments, outcome) ==
    /\ Len(gl) < MaxUniformCalls
    /\ gl' = outcome.gl
    /\ lastOp' = Op(IF outcome.threw THEN name \o ":ArgumentError" ELSE name,
                    <<>>, arguments)
    /\ UNCHANGED <<layerVars, negotiationVars, constructionVars>>

\* a call of program.loadModelviewProjection(gl, matrix)
LoadModelviewProjection(matrix) ==
    Loaded("loadModelviewProjection", <<matrix>>, loadModelviewProjection(gl, matrix))

\* a call of program.loadNumDays(gl, numDays)
LoadNumDays(numDays) ==
    Loaded("loadNumDays", <<numDays>>, loadNumDays(gl, numDays))

\* a call of program.loadMagnitudeRange(gl, minMag, maxMag)
LoadMagnitudeRange(minMag, maxMag) ==
    Loaded("loadMagnitudeRange", <<minMag, maxMag>>,
           loadMagnitudeRange(gl, minMag, maxMag))

(***************************************************************************)
(* A layer made from a negotiated tile matrix set                          *)
(***************************************************************************)
\* the Mercator set of a service whose second level has tiles of 512 pixels:
\* the levels keep the levelNumber of the capabilities document, their
\* position in the set as the service lists it
MercatorCandidate ==
    [identifier |-> "mercator", supportedCRS |-> Epsg3857, boundingBox |-> Null,
     tileMatrix |-> <<Level(0, 1, 1, 256), Level(1, 2, 2, 512), Level(2, 2, 2, 256)>>]

\* the layer of the set convertTileMatrixSets makes of it, with a bounding
\* box inside the north-west quarter of the map
NegotiatedLayer ==
    [NarrowLayer EXCEPT !.tileMatrixSet = ConvertFrom(<<MercatorCandidate>>, 1, <<>>)[1]]

\* the cameras by the texel size alone: Tile.mustSubdivide compares the texel
\* size of a tile with the threshold, whatever the level of the tile
TexelCameras ==
    {[visible |-> v, mustSubdivide |-> m] :
        v \in SUBSET LayerPaths, m \in SUBSET LayerPaths}

TexelDrawContexts ==
    {[terrain |-> TRUE, modelviewProjection |-> c, globeStateKey |-> k] :
        c \in TexelCameras, k \in GlobeStateKeys}

(***************************************************************************)
(* The rendering criterion                                                 *)
(* Thresholds and texel sizes are counted in thousandths of a pixel.       *)
(***************************************************************************)
\* the latitude from which a tile counts as polar, in degrees
PolarLatitude == 75

\* the relaxation of the threshold for polar tiles, 1.2, in tenths
PolarRelaxation == 12

\* the threshold with the tiles that touch the polar latitude left out
DetailFactorStrictlyPoleward(tile) ==
    IF tile.sector.minLatitude > PolarLatitude \/ tile.sector.maxLatitude < -PolarLatitude
    THEN detailControl * PolarRelaxation
    ELSE detailControl * 10

\* the local s of tileMeetsRenderingCriteria: this.detailControl, times 1.2 for
\* a polar tile
DetailFactor(tile) ==
    IF tile.sector.minLatitude >= PolarLatitude \/ tile.sector.maxLatitude <= -PolarLatitude
    THEN detailControl * PolarRelaxation
    ELSE detailControl * 10

\* Tile.prototype.mustSubdivide(dc, detailFactor): the texel size of the tile,
\* as the camera projects it, is above the threshold
mustSubdivide(texelSize, detailFactor) == texelSize > detailFactor

\* tileMeetsRenderingCriteria, for a tile of a geographic layer and the texel
\* size the camera gives it
tileMeetsRenderingCriteriaBySize(texelSize, tile) ==
    LET s == DetailFactor(tile)
    IN  [threshold |-> s,
         meets |-> \/ tile.tileMatrix.levelNumber = Len(tileMatrixSet.tileMatrix) - 1
                   \/ ~mustSubdivide(texelSize, s)]

\* the geographic layers of four levels over a polar cap, north or south
PolarLayers ==
    { [WideLayer EXCEPT
          !.sector = box,
          !.tileMatrixSet =
              [identifier |-> "set", supportedCRS |-> crs,
               tileMatrix |->
                  [k \in 1..Len(shapes) |->
                      [identifier |-> ToString(k - 1), levelNumber |-> k - 1,
                       matrixHeight |-> shapes[k][1], matrixWidth |-> shapes[k][2],
                       tileHeight |-> TileSize, tileWidth |-> TileSize,
                       topLeftCorner |->
                          IF isEpsg4326Crs(crs)
                          THEN <<box.maxLatitude, box.minLongitude>>
                          ELSE <<box.minLongitude, box.maxLatitude>>]]]] :
        crs \in {Epsg4326, OgcCrs84},
        box \in {GeographicSector(50, 90, 0, 80), GeographicSector(-90, -50, 0, 80)},
        shapes \in {<<<<1, 2>>, <<2, 4>>, <<4, 8>>, <<8, 16>>>>} }

\* the tiles of the first and of the last column of every level
PolarTiles ==
    UNION { { IF isEpsg4326Crs(tileMatrixSet.supportedCRS)
              THEN createTile4326(tileMatrix, row, column)
              ELSE createTileCrs84(tileMatrix, row, column) :
                row \in 0..(tileMatrix.matrixHeight - 1),
                column \in {0, tileMatrix.matrixWidth - 1} } :
            tileMatrix \in SeqToSet(tileMatrixSet.tileMatrix) }

\* the texel sizes a camera gives a tile: below, at and above 1.75 and 2.1
TexelSizes == {1000, 1750, 1751, 2100, 2101}

\* the values an application gives detailControl
DetailControls == {125, DefaultDetailControl, 200}

\* a call of tileMeetsRenderingCriteria(dc, tile) by the traversal
TileMeetsRenderingCriteria(texelSize, tile) ==
    LET outcome == tileMeetsRenderingCriteriaBySize(texelSize, tile)
    IN  /\ lastOp' = Op("tileMeetsRenderingCriteria", tile.imagePath,
                        [tile |-> tile, texelSize |-> texelSize,
                         threshold |-> outcome.threshold, meets |-> outcome.meets])
        /\ UNCHANGED <<layerVars, negotiationVars, constructionVars, programVars>>

\* the application assigns layer.detailControl
SetDetailControl(value) ==
    /\ detailControl' = value
    /\ lastOp' = Op("application", <<>>, <<>>)
    /\ UNCHANGED <<layerVars, negotiationVars, config, layerIdentifier, styleIdentifier,
                   timeString, imageFormat, resourceUrl, serviceUrl, programVars>>

(***************************************************************************)
(* The layer after construction, and its behaviours                        *)
(***************************************************************************)
NegotiationIdle ==
    /\ layerCaps = Null
    /\ convertedTileMatrixSets = Null

\* the fields the constructor gives a layer
LayerOf(layerConfig) ==
    /\ config = layerConfig
    /\ layerIdentifier = layerConfig.layerIdentifier
    /\ styleIdentifier = layerConfig.styleIdentifier
    /\ timeString = layerConfig.timeString
    /\ imageFormat = layerConfig.imageFormat
    /\ resourceUrl = layerConfig.resourceUrl
    /\ serviceUrl = layerConfig.serviceUrl
    /\ detailControl = DefaultDetailControl
    /\ gl = <<>>
    /\ tileMatrixSet = layerConfig.tileMatrixSet
    /\ sector = layerConfig.sector
    /\ expiration = FALSE
    /\ absentResourceList = {}
    /\ currentRetrievals = <<>>
    /\ images = EmptyBag
    /\ currentTiles = <<>>
    /\ currentTilesInvalid = TRUE
    /\ topLevelTiles = <<>>
    /\ currentAncestorTile = Null
    /\ lasTtMVP = Null
    /\ lastGlobeStateKey = "undefined"
    /\ redrawEvents = FALSE
    /\ lastOp = Op("constructor", <<>>, <<>>)

\* a layer after construction, the GPU resource cache of the window empty
Constructed(layerConfig) ==
    /\ LayerOf(layerConfig)
    /\ gpuResourceCache = << >>

\* the GPU resource caches a layer can find: the cache belongs to the window
\* and is keyed by imagePath, and holds the textures that frames of the layer
\* had fetched
ResidentTextures ==
    {[p \in resident |-> "createdAfterExpiration"] : resident \in SUBSET LayerPaths}

Init == Constructed(WideLayer) /\ NegotiationIdle

Next ==
    \/ \E dc \in DrawContexts : DoRender(dc)
    \/ \E tile \in LayerTiles : RetrieveTileImage(tile)
    \/ \E path \in LayerPaths : ImageOnLoad(path)
    \/ \E path \in LayerPaths : ImageOnError(path)
    \/ \E path \in LayerPaths : AbsentWindowElapses(path)
    \/ \E path \in LayerPaths : EvictResource(path)

\* a layer without expiration
Spec == Init /\ [][Next]_vars

InitExpiry == Constructed(NarrowLayer) /\ NegotiationIdle

NextExpiry ==
    \/ \E dc \in DrawContexts : DoRender(dc)
    \/ \E tile \in LayerTiles : RetrieveTileImage(tile)
    \/ \E path \in LayerPaths : ImageOnLoad(path)
    \/ \E path \in LayerPaths : ImageOnError(path)
    \/ \E path \in LayerPaths : AbsentWindowElapses(path)
    \/ \E path \in LayerPaths : EvictResource(path)
    \/ SetExpiration

\* a layer whose application sets an expiration time
SpecExpiry == InitExpiry /\ [][NextExpiry]_vars

\* the capabilities of a service with one tile matrix set, being read
InitNegotiation ==
    /\ Constructed(NarrowLayer)
    /\ \E crs \in CoordinateSystems :
          layerCaps = [BareCapabilities EXCEPT !.tileMatrixSets =
                          <<[identifier |-> "set", supportedCRS |-> crs,
                             boundingBox |-> Null, tileMatrix |-> <<>>]>>]
    /\ convertedTileMatrixSets = Null

NextNegotiation ==
    \/ \E shape \in TileMatrixShapes : AddTileMatrix(shape)
    \/ ConvertTileMatrixSets

SpecNegotiation == InitNegotiation /\ [][NextNegotiation]_vars

\* no layer has been constructed
NoLayer ==
    /\ tileMatrixSet = Null
    /\ sector = Null
    /\ expiration = FALSE
    /\ gpuResourceCache = << >>
    /\ absentResourceList = {}
    /\ currentRetrievals = <<>>
    /\ images = EmptyBag
    /\ currentTiles = <<>>
    /\ currentTilesInvalid = TRUE
    /\ topLevelTiles = <<>>
    /\ currentAncestorTile = Null
    /\ lasTtMVP = Null
    /\ lastGlobeStateKey = "undefined"
    /\ redrawEvents = FALSE
    /\ layerIdentifier = Undefined
    /\ styleIdentifier = Undefined
    /\ timeString = Undefined
    /\ imageFormat = Undefined
    /\ resourceUrl = <<>>
    /\ serviceUrl = <<>>
    /\ detailControl = DefaultDetailControl
    /\ gl = <<>>

\* the capabilities of a layer being read, or none given
InitConfiguration ==
    /\ NoLayer
    /\ config = Null
    /\ layerCaps \in {Null, BareCapabilities, RichCapabilities}
    /\ convertedTileMatrixSets = Null
    /\ lastOp = Op("capabilities", <<>>, <<>>)

NextConfiguration ==
    \/ \E format \in ImageFormats : AddFormat(format)
    \/ \E format \in ResourceFormats : AddResourceUrl(format)
    \/ SetKvpAddress
    \/ \E set \in TileMatrixSetCatalog : AddTileMatrixSet(set)
    \/ CreateConfigurationFromLayer
    \/ ConvertTileMatrixSets

SpecConfiguration == InitConfiguration /\ [][NextConfiguration]_vars

\* a layer whose tiles are addressed
InitAddressing ==
    /\ NegotiationIdle
    /\ \E layer \in AddressedLayers : Constructed(layer)

NextAddressing ==
    \/ \E tileMatrix \in SeqToSet(tileMatrixSet.tileMatrix) :
          \E row \in 0..(tileMatrix.matrixHeight - 1),
             column \in 0..(tileMatrix.matrixWidth - 1) :
              CreateTile(tileMatrix, row, column)
    \/ \E tile \in MercatorTiles, image \in Images : CreateTexture3857(tile, image)

SpecAddressing == InitAddressing /\ [][NextAddressing]_vars

\* a layer whose tiles are requested
InitRequestUrl ==
    /\ NegotiationIdle
    /\ \E layer \in RequestingLayers : Constructed(layer)

NextRequestUrl == \E tile \in LayerTiles : ResourceUrlForTile(tile)

SpecRequestUrl == InitRequestUrl /\ [][NextRequestUrl]_vars

\* a configuration about to be given to the constructor
InitConstruction ==
    /\ NoLayer
    /\ NegotiationIdle
    /\ config \in Configurations
    /\ lastOp = Op("configuration", <<>>, <<>>)

NextConstruction == Construct

SpecConstruction == InitConstruction /\ [][NextConstruction]_vars

\* a star field program after construction, its context having received no
\* uniform call
InitProgram ==
    /\ NoLayer
    /\ NegotiationIdle
    /\ config = Null
    /\ lastOp = Op("StarFieldProgram", <<>>, <<>>)

NextProgram ==
    \/ \E matrix \in MatrixArguments : LoadModelviewProjection(matrix)
    \/ \E numDays \in NumberArguments : LoadNumDays(numDays)
    \/ \E minMag \in NumberArguments, maxMag \in NumberArguments :
          LoadMagnitudeRange(minMag, maxMag)

SpecProgram == InitProgram /\ [][NextProgram]_vars

\* a layer drawn on a globe whose state changes
InitFrames == Constructed(NarrowLayer) /\ NegotiationIdle

NextFrames ==
    \/ \E dc \in ChangingDrawContexts : DoRender(dc)
    \/ \E path \in LayerPaths : ImageOnLoad(path)
    \/ \E path \in LayerPaths : ImageOnError(path)
    \/ \E path \in LayerPaths : EvictResource(path)

SpecFrames == InitFrames /\ [][NextFrames]_vars

\* a layer of three levels and two top-level tiles, and the textures resident
\* when its render list is assembled
InitDescent ==
    /\ NegotiationIdle
    /\ LayerOf(DeepLayer)
    /\ gpuResourceCache \in ResidentTextures

\* the assembly of the render list, for each camera
NextDescent == \E dc \in DrawContexts : topLevelTiles = <<>> /\ DoRender(dc)

SpecDescent == InitDescent /\ [][NextDescent]_vars

\* a layer with two top-level tiles
InitTopLevel == Constructed(TwoTopLayer) /\ NegotiationIdle

NextTopLevel ==
    \/ \E dc \in DrawContexts : DoRender(dc)
    \/ \E path \in LayerPaths : ImageOnLoad(path)
    \/ \E path \in LayerPaths : EvictResource(path)

SpecTopLevel == InitTopLevel /\ [][NextTopLevel]_vars

\* a layer whose negotiated tile matrix set lacks a level of the service
InitNegotiated == Constructed(NegotiatedLayer) /\ NegotiationIdle

NextNegotiated ==
    \/ \E dc \in TexelDrawContexts : DoRender(dc)
    \/ \E path \in LayerPaths : ImageOnLoad(path)

SpecNegotiated == InitNegotiated /\ [][NextNegotiated]_vars

\* a layer over a polar cap whose tiles are tested for subdivision
InitDetail ==
    /\ NegotiationIdle
    /\ \E layer \in PolarLayers : Constructed(layer)

NextDetail ==
    \/ \E texelSize \in TexelSizes, tile \in PolarTiles :
          TileMeetsRenderingCriteria(texelSize, tile)
    \/ \E value \in DetailControls : SetDetailControl(value)

SpecDetail == InitDetail /\ [][NextDetail]_vars

\* a layer seen by cameras that answer for every tile on its own
InitVisibility == Constructed(NarrowLayer) /\ NegotiationIdle

NextVisibility ==
    \/ \E dc \in FreeDrawContexts : DoRender(dc)
    \/ \E path \in LayerPaths : ImageOnLoad(path)

SpecVisibility == InitVisibility /\ [][NextVisibility]_vars

\* A layer whose retrievals complete and whose canvas answers a REDRAW event
\* with a frame; nothing is evicted from the texture cache.
InitLive == Constructed(WideLayer) /\ NegotiationIdle

NextLive ==
    \/ \E dc \in DrawContexts : DoRender(dc)
    \/ \E path \in LayerPaths : ImageOnLoad(path)
    \/ \E path \in LayerPaths : ImageOnError(path)

\* the positions of the tile matrices of the layer
LivePaths ==
    UNION {{<<tm.levelNumber, row, column>> :
               row \in 0..(tm.matrixHeight - 1), column \in 0..(tm.matrixWidth - 1)} :
           tm \in SeqToSet(WideLayer.tileMatrixSet.tileMatrix)}

\* the browser calls one of the two callbacks of every Image; the WorldWindow
\* draws a frame after a REDRAW event
SpecLive ==
    /\ InitLive
    /\ [][NextLive]_vars
    /\ WF_vars(redrawEvents /\ \E dc \in DrawContexts : DoRender(dc))
    /\ \A path \in LivePaths : WF_vars(ImageOnLoad(path) \/ ImageOnError(path))

\* a layer whose fetches load images of any size, fail, and are asked again
InitRetrievals == Constructed(NarrowLayer) /\ NegotiationIdle

NextRetrievals ==
    \/ \E dc \in DrawContexts : DoRender(dc)
    \/ \E tile \in LayerTiles : RetrieveTileImage(tile)
    \/ \E path \in LayerPaths, image \in LoadedImages : ImageOnLoadOf(path, image)
    \/ \E path \in LayerPaths : ImageOnError(path)
    \/ \E path \in LayerPaths : AbsentWindowElapses(path)

SpecRetrievals == InitRetrievals /\ [][NextRetrievals]_vars

(***************************************************************************)
(* Properties                                                              *)
(***************************************************************************)
Occurrences(array, x) == Cardinality({i \in 1..Len(array) : array[i] = x})

InArray(array, x) == ~NotInArray(array, x)

CurrentTilePaths == [i \in 1..Len(currentTiles) |-> currentTiles[i].imagePath]

RECURSIVE PushedBy(_)
\* the paths pushed by the calls of addTile a log records, in order
PushedBy(log) ==
    IF log = <<>> THEN <<>> ELSE log[1].pushed \o PushedBy(Tail(log))

Assembled == lastOp.op = "doRender:assembled"

LogEntries == SeqToSet(lastOp.log)

\* C1: in every reachable state each imagePath occurs at most once in
\* currentRetrievals and at most one Image fetching it is outstanding, under
\* any interleaving of frames, calls of retrieveTileImage and image callbacks,
\* also when an expired resident texture is requested again.
C1_OneRetrievalPerPath ==
    \A path \in LayerPaths \cup SeqToSet(currentRetrievals) \cup BagToSet(images) :
        /\ Occurrences(currentRetrievals, path) <= 1
        /\ CopiesIn(path, images) <= 1

\* a frame has just requested an expired resident texture again and its one
\* fetch is outstanding
C1_Witness ==
    /\ Assembled
    /\ \E e \in LogEntries :
          /\ e.texture /\ e.dispatched
          /\ gpuResourceCache[e.tile] = "createdBeforeExpiration"
          /\ Occurrences(currentRetrievals, e.tile) = 1
          /\ CopiesIn(e.tile, images) = 1

\* C2: a call of retrieveTileImage for a tile whose imagePath is in
\* currentRetrievals or is reported absent changes nothing: no fetch is
\* dispatched, and currentRetrievals, the GPU resource cache, the render list
\* and currentTilesInvalid stay as they are.
C2_RetrieveIsNoOp ==
    [][(/\ lastOp'.op = "retrieveTileImage"
        /\ \/ InArray(currentRetrievals, lastOp'.path)
           \/ isResourceAbsent(lastOp'.path))
       => UNCHANGED <<images, currentRetrievals, gpuResourceCache, currentTiles,
                      currentTilesInvalid, absentResourceList>>]_vars

\* retrieveTileImage has just been called for a path the list reports absent
C2_Witness ==
    /\ lastOp.op = "retrieveTileImage"
    /\ isResourceAbsent(lastOp.path)
    /\ NotInArray(currentRetrievals, lastOp.path)
    /\ ~BagIn(lastOp.path, images)

\* C3: right after image.onload of the fetch of a path, the texture is in the
\* GPU resource cache under that path, the path is not reported absent and is
\* not in currentRetrievals, currentTilesInvalid is true and a redraw event
\* has been sent, whether or not the tile is still visible or rendered.
C3_AfterOnLoad ==
    lastOp.op = "image.onload" =>
        /\ lastOp.path \in DOMAIN gpuResourceCache
        /\ ~isResourceAbsent(lastOp.path)
        /\ NotInArray(currentRetrievals, lastOp.path)
        /\ currentTilesInvalid
        /\ redrawEvents

\* an image has just loaded for a tile the last frame's camera did not see and
\* that is not in the render list
C3_Witness ==
    /\ lastOp.op = "image.onload"
    /\ lasTtMVP # Null
    /\ lastOp.path \notin lasTtMVP.visible
    /\ NotInArray(CurrentTilePaths, lastOp.path)
    /\ lastOp.path \in DOMAIN gpuResourceCache

\* C4: image.onerror of the fetch of a path removes the path from
\* currentRetrievals and marks it absent, and leaves the GPU resource cache,
\* the render list, currentTilesInvalid and the pending redraw events alone.
C4_OnError ==
    [][lastOp'.op = "image.onerror" =>
          /\ NotInArray(currentRetrievals', lastOp'.path)
          /\ lastOp'.path \in absentResourceList'
          /\ UNCHANGED <<gpuResourceCache, currentTiles, currentTilesInvalid,
                         redrawEvents>>]_vars

\* a fetch has just failed: its path is marked absent and no longer in flight
C4_Witness ==
    /\ lastOp.op = "image.onerror"
    /\ isResourceAbsent(lastOp.path)
    /\ NotInArray(currentRetrievals, lastOp.path)
    /\ ~BagIn(lastOp.path, images)

\* C5: no step dispatches a fetch for a path while the absent-resource list
\* reports it absent; and a frame whose traversal accepts a tile without a
\* resident texture, whose path is neither reported absent nor in flight,
\* dispatches exactly one fetch for it.
C5_AbsentNotRetried ==
    [][/\ \A path \in LayerPaths :
             isResourceAbsent(path) => CopiesIn(path, images') <= CopiesIn(path, images)
       /\ lastOp'.op = "doRender:assembled" =>
             \A e \in SeqToSet(lastOp'.log) :
                 (/\ ~e.texture
                  /\ ~isResourceAbsent(e.tile)
                  /\ NotInArray(currentRetrievals, e.tile))
                 => /\ e.dispatched
                    /\ CopiesIn(e.tile, images') = CopiesIn(e.tile, images) + 1
                    /\ CopiesIn(e.tile, images') = 1]_vars

\* a frame has just accepted a tile without texture whose path is reported
\* absent (its fetch failed) and has dispatched nothing for it
C5_Witness ==
    /\ Assembled
    /\ \E e \in LogEntries :
          /\ ~e.texture /\ e.requested /\ ~e.dispatched
          /\ isResourceAbsent(e.tile)
          /\ ~BagIn(e.tile, images)

\* C6: the render list currentTiles never holds a tile more than once.
C6_NoDuplicateTiles ==
    \A i, j \in 1..Len(currentTiles) : i # j => currentTiles[i] # currentTiles[j]

\* C7: after an assembly, a tile accepted with its texture resident is in the
\* render list exactly once, it is all its call of addTile pushed (no
\* ancestor), the render list holds what the calls of addTile pushed, and a
\* fetch was requested for it only if the layer has an expiration time and
\* the texture is expired.
C7_ResidentTileOnce ==
    Assembled =>
        /\ CurrentTilePaths = PushedBy(lastOp.log)
        /\ \A e \in LogEntries :
              e.texture =>
                 /\ e.pushed = <<e.tile>>
                 /\ Occurrences(CurrentTilePaths, e.tile) = 1
                 /\ (e.requested \/ e.dispatched) =>
                       /\ expiration
                       /\ gpuResourceCache[e.tile] = "createdBeforeExpiration"

\* the top-level tile, its texture resident, was accepted with no ancestor:
\* the render list is that tile, once, and nothing was fetched
C7_Witness ==
    /\ Assembled
    /\ Len(lastOp.log) = 1
    /\ lastOp.log[1].texture
    /\ lastOp.log[1].tile[1] = 0
    /\ lastOp.log[1].ancestor = <<>>
    /\ ~lastOp.log[1].dispatched
    /\ CurrentTilePaths = <<lastOp.log[1].tile>>

KeptSets == IF convertedTileMatrixSets = Null THEN {}
            ELSE SeqToSet(convertedTileMatrixSets.returned)

\* C9: the levels convertTileMatrixSets keeps of a candidate start with its
\* level 0, and every later kept level has twice the matrixHeight of the kept
\* level before it, the first one after level 0 included.
C9_HeightsDouble ==
    \A set \in KeptSets :
        /\ set.tileMatrix[1].levelNumber = 0
        /\ \A k \in 2..Len(set.tileMatrix) :
              set.tileMatrix[k].matrixHeight = 2 * set.tileMatrix[k - 1].matrixHeight

ConformsToCrs(crs, tileMatrix) ==
    /\ isEpsg3857Crs(crs) => tileMatrix.matrixWidth = tileMatrix.matrixHeight
    /\ (isEpsg4326Crs(crs) \/ isOGCCrs84(crs)) =>
          tileMatrix.matrixWidth = 2 * tileMatrix.matrixHeight
    /\ tileMatrix.tileWidth = tileMatrix.tileHeight
    /\ tileMatrix.tileHeight = TileSize

\* C10 as stated: every level of every returned set, level 0 included, has
\* the width/height ratio of its CRS and square tiles of 256 pixels.
C10_EveryLevelConforms ==
    \A set \in KeptSets :
        \A k \in 1..Len(set.tileMatrix) :
            ConformsToCrs(set.supportedCRS, set.tileMatrix[k])

\* C10 amended: every level other than level 0 of every returned set has the
\* width/height ratio of its CRS and square tiles of 256 pixels.
C10_LaterLevelsConform ==
    \A set \in KeptSets :
        \A k \in 2..Len(set.tileMatrix) :
            ConformsToCrs(set.supportedCRS, set.tileMatrix[k])

\* a set was returned whose level 0 does not conform while its later levels do
C10_Witness ==
    \E set \in KeptSets :
        /\ ~ConformsToCrs(set.supportedCRS, set.tileMatrix[1])
        /\ Len(set.tileMatrix) >= 3
        /\ Len(set.tileMatrix) < Len(layerCaps.tileMatrixSets[1].tileMatrix)

\* the three supported families of coordinate systems
SupportedCrs(crs) == crs \in {Epsg4326, Epsg3857, Epsg900913, OgcCrs84}

\* a level that can follow level 0: it has the shape of its CRS, even
\* dimensions and square tiles of 256 pixels
UsableLevel(crs, tileMatrix) ==
    /\ ConformsToCrs(crs, tileMatrix)
    /\ tileMatrix.matrixHeight % 2 = 0
    /\ tileMatrix.matrixWidth % 2 = 0

\* a candidate with a supported CRS that yields at least two levels: its
\* level 0 and a usable later level
TwoUsableLevels(candidate) ==
    /\ SupportedCrs(candidate.supportedCRS)
    /\ \E j \in 2..Len(candidate.tileMatrix) :
          UsableLevel(candidate.supportedCRS, candidate.tileMatrix[j])

\* C11: convertTileMatrixSets throws ArgumentError for null capabilities;
\* otherwise it returns, in the order of the candidates, exactly the
\* candidates of a supported CRS with at least two usable levels, each with at
\* least two kept levels; no other candidate appears.
C11_SupportedSetsInOrder ==
    convertedTileMatrixSets # Null =>
        IF layerCaps = Null
        THEN convertedTileMatrixSets.threw
        ELSE LET returned == convertedTileMatrixSets.returned
                 expected == SelectSeq(layerCaps.tileMatrixSets, TwoUsableLevels)
             IN  /\ ~convertedTileMatrixSets.threw
                 /\ Len(returned) = Len(expected)
                 /\ \A i \in 1..Len(returned) :
                       /\ returned[i].identifier = expected[i].identifier
                       /\ returned[i].supportedCRS = expected[i].supportedCRS
                       /\ SupportedCrs(returned[i].supportedCRS)
                       /\ Len(returned[i].tileMatrix) >= 2

\* of two candidates the first is discarded and the second returned
C11_Witness ==
    /\ convertedTileMatrixSets # Null
    /\ layerCaps # Null
    /\ Len(layerCaps.tileMatrixSets) = 2
    /\ layerCaps.tileMatrixSets[1].identifier = "flat"
    /\ Len(convertedTileMatrixSets.returned) = 1
    /\ convertedTileMatrixSets.returned[1].identifier =
          layerCaps.tileMatrixSets[2].identifier

Returned == lastOp.op = "createConfigurationFromLayer"

Threw == lastOp.op = "createConfigurationFromLayer:ArgumentError"

\* the sets the negotiation returns for the capabilities
Negotiated ==
    IF layerCaps = Null THEN {} ELSE SeqToSet(convertTileMatrixSets(layerCaps).returned)

\* C12: the configuration createConfigurationFromLayer returns has the
\* negotiated tile matrix set with the most levels.
C12_MostLevelsSelected ==
    Returned =>
        \A set \in Negotiated :
            Len(config.tileMatrixSet.tileMatrix) >= Len(set.tileMatrix)

Priority == <<"image/png", "image/jpeg", "image/tiff", "image/gif">>

\* C13: the configuration's imageFormat is the first of image/png,
\* image/jpeg, image/tiff, image/gif that the service advertises, whatever the
\* order of its list, and the first advertised format when it advertises none
\* of the four; {image/jpeg, image/gif} gives image/jpeg.
C13_ImageFormatByPriority ==
    Returned =>
        LET advertised == SeqToSet(layerCaps.format)
        IN  /\ IF \E k \in 1..4 : Priority[k] \in advertised
               THEN \E k \in 1..4 :
                       /\ config.imageFormat = Priority[k]
                       /\ Priority[k] \in advertised
                       /\ \A j \in 1..(k - 1) : Priority[j] \notin advertised
               ELSE config.imageFormat = layerCaps.format[1]
            /\ advertised = {"image/jpeg", "image/gif"} =>
                  config.imageFormat = "image/jpeg"

\* the service lists image/gif before image/jpeg and the configuration has
\* image/jpeg
C13_Witness ==
    /\ Returned
    /\ layerCaps.format = <<"image/gif", "image/jpeg">>
    /\ config.imageFormat = "image/jpeg"

\* the capabilities give no URL createConfigurationFromLayer can use
NoUsableUrl(format) ==
    IF Len(layerCaps.resourceUrl) > 0
    THEN \A i \in 1..Len(layerCaps.resourceUrl) : layerCaps.resourceUrl[i].format # format
    ELSE layerCaps.kvpAddress = <<>>

\* C16: createConfigurationFromLayer throws ArgumentError exactly when the
\* capabilities are null, or give no image format, no usable URL or no
\* compatible tile matrix set; otherwise its configuration has an image
\* format, a negotiated tile matrix set, and exactly one of resourceUrl (the
\* template of the chosen format) and serviceUrl (only when the service
\* advertises no resource URLs).
C16_ThrowsOrUsableConfiguration ==
    (Returned \/ Threw) =>
        LET fatal == \/ layerCaps = Null
                     \/ Len(layerCaps.format) = 0
                     \/ NoUsableUrl(ImageFormat(layerCaps.format))
                     \/ Negotiated = {}
        IN  /\ Threw <=> fatal
            /\ Returned =>
                  /\ ~IsFalsy(config.imageFormat)
                  /\ config.tileMatrixSet \in Negotiated
                  /\ (config.resourceUrl # <<>>) # (config.serviceUrl # <<>>)
                  /\ config.resourceUrl # <<>> =>
                        \E i \in 1..Len(layerCaps.resourceUrl) :
                            /\ layerCaps.resourceUrl[i].format = config.imageFormat
                            /\ layerCaps.resourceUrl[i].template = config.resourceUrl
                  /\ config.serviceUrl # <<>> => Len(layerCaps.resourceUrl) = 0

\* a configuration in template mode of a service that also gives a key-value
\* address
C16_Witness ==
    /\ Returned
    /\ config.resourceUrl # <<>>
    /\ layerCaps.kvpAddress # <<>>

ConstructorReturned == lastOp.op = "constructor"

ConstructorThrew == lastOp.op = "constructor:ArgumentError"

\* the configuration supplies no bounding box at all
NoBoundingBoxAtAll ==
    /\ config.wgs84BoundingBox = Null
    /\ config.boundingBox = Null
    /\ config.tileMatrixSet.boundingBox = Null

\* the configuration of an EPSG:4326 tile matrix set supplies no EPSG:4326
\* bounding box
NoEpsg4326BoundingBox ==
    /\ config.wgs84BoundingBox = Null
    /\ config.boundingBox # Null
    /\ config.tileMatrixSet.supportedCRS = Epsg4326
    /\ \/ config.tileMatrixSet.boundingBox = Null
       \/ config.tileMatrixSet.boundingBox.crs # Epsg4326

\* C14: the constructor throws ArgumentError and leaves no layer whenever the
\* configuration is null or lacks an image format, both URLs, a tile matrix
\* set or every bounding box; it throws for no reason that involves the layer
\* or style identifier.
C14_ConstructorThrows ==
    (ConstructorReturned \/ ConstructorThrew) =>
        LET missing == \/ config = Null
                       \/ IsFalsy(config.imageFormat)
                       \/ config.resourceUrl = <<>> /\ config.serviceUrl = <<>>
                       \/ config.tileMatrixSet = Null
                       \/ NoBoundingBoxAtAll
        IN  /\ missing => ConstructorThrew /\ tileMatrixSet = Null /\ sector = Null
            /\ ConstructorThrew => missing \/ NoEpsg4326BoundingBox

\* the constructor threw for a configuration whose only defect is that it has
\* no bounding box at all
C14_Witness ==
    /\ ConstructorThrew
    /\ config # Null
    /\ ~IsFalsy(config.imageFormat)
    /\ config.resourceUrl # <<>>
    /\ config.tileMatrixSet # Null
    /\ NoBoundingBoxAtAll
    /\ config.layerIdentifier = Undefined

\* C15: a layer whose constructor returned has a defined sector.
C15_SectorDefined == ConstructorReturned => sector # Null

TileCreated == lastOp.op = "createTile"

\* the tile of a geographic or CRS84 layer at an address
GeographicTileAt(tileMatrix, row, column) ==
    IF tileMatrixSet.supportedCRS = Epsg4326
    THEN createTile4326(tileMatrix, row, column)
    ELSE createTileCrs84(tileMatrix, row, column)

\* C17: in a geographic or CRS84 matrix a tile is as high as the layer's
\* sector divided by matrixHeight and as wide as the sector divided by
\* matrixWidth, it starts at the matrix's top left corner moved by its row
\* and column, its east edge is the west edge of the next column's tile and
\* its south edge the north edge of the next row's tile, and the CRS84
\* variant is the geographic one with the corner's axes exchanged.
C17_GeographicTilesAdjoin ==
    (TileCreated /\ tileMatrixSet.supportedCRS \in {Epsg4326, OgcCrs84}) =>
        LET tile == lastOp.log.tile
            tileMatrix == tile.tileMatrix
            geographic == tileMatrixSet.supportedCRS = Epsg4326
            cornerLat == tileMatrix.topLeftCorner[IF geographic THEN 1 ELSE 2]
            cornerLon == tileMatrix.topLeftCorner[IF geographic THEN 2 ELSE 1]
            height == deltaLatitude(tile.sector)
            width == deltaLongitude(tile.sector)
            exchanged == [tileMatrix EXCEPT !.topLeftCorner = <<@[2], @[1]>>]
        IN  /\ height * tileMatrix.matrixHeight = deltaLatitude(sector)
            /\ width * tileMatrix.matrixWidth = deltaLongitude(sector)
            /\ tile.sector.maxLatitude = cornerLat - tile.row * height
            /\ tile.sector.minLongitude = cornerLon + tile.column * width
            /\ tile.column + 1 < tileMatrix.matrixWidth =>
                  GeographicTileAt(tileMatrix, tile.row, tile.column + 1).sector.minLongitude
                     = tile.sector.maxLongitude
            /\ tile.row + 1 < tileMatrix.matrixHeight =>
                  GeographicTileAt(tileMatrix, tile.row + 1, tile.column).sector.maxLatitude
                     = tile.sector.minLatitude
            /\ tile.sector = IF geographic
                             THEN createTileCrs84(exchanged, tile.row, tile.column).sector
                             ELSE createTile4326(exchanged, tile.row, tile.column).sector

\* an inner tile of a geographic matrix of four rows and four columns
C17_Witness ==
    /\ TileCreated
    /\ tileMatrixSet.supportedCRS = Epsg4326
    /\ lastOp.log.tile.tileMatrix.matrixWidth = 4
    /\ lastOp.log.tile.row = 1
    /\ lastOp.log.tile.column = 2

\* C18: the pixel extent of a Web Mercator tile is its nominal rectangle
\* enlarged by half a pixel on each of its four edges and clamped to the map
\* (in half pixels).
C18_HalfPixelOnEachEdge ==
    (TileCreated /\ lastOp.log.extent # Null) =>
        LET tile == lastOp.log.tile
            tileMatrix == tile.tileMatrix
            mapWidth == 2 * tileMatrix.tileWidth * tileMatrix.matrixWidth
            mapHeight == 2 * tileMatrix.tileHeight * tileMatrix.matrixHeight
            Clamped(v, max) == IF v < 0 THEN 0 ELSE IF v > max THEN max ELSE v
        IN  /\ lastOp.log.extent.swX =
                  Clamped(2 * tile.column * tileMatrix.tileWidth - 1, mapWidth)
            /\ lastOp.log.extent.neX =
                  Clamped(2 * (tile.column + 1) * tileMatrix.tileWidth + 1, mapWidth)
            /\ lastOp.log.extent.neY =
                  Clamped(2 * tile.row * tileMatrix.tileHeight - 1, mapHeight)
            /\ lastOp.log.extent.swY =
                  Clamped(2 * (tile.row + 1) * tileMatrix.tileHeight + 1, mapHeight)

\* C19: the image createTexture3857 makes has the width and height of the
\* source image, each of its rows is a copy, channel by channel and column
\* by column, of one row of the source, its top row copies the source's top
\* row and its bottom row the source's bottom row.
C19_RowsAreCopied ==
    lastOp.op = "createTexture3857" =>
        LET source == lastOp.log.image
            destination == lastOp.log.destCanvas
            Copies(y, row) ==
                \A x \in 0..(source.width - 1), channel \in 0..3 :
                    destination.data[4 * (x + y * source.width) + channel]
                       = source.data[4 * (x + row * source.width) + channel]
        IN  /\ destination.width = source.width
            /\ destination.height = source.height
            /\ \A y \in 0..(source.height - 1) :
                  \E row \in 0..(source.height - 1) : Copies(y, row)
            /\ Copies(0, 0)
            /\ Copies(source.height - 1, source.height - 1)

\* C20: resourceUrlForTile fills the template exactly when the layer has a
\* resourceUrl, writing the layer's and the tile's values for {Style},
\* {TileMatrixSet}, {TileMatrix}, {TileCol}, {TileRow} and, with a time
\* string, {Time}; otherwise it builds the key-value URL with Layer, Style,
\* Format, Time, TileMatrixSet, TileMatrix, TileRow, TileCol in this order,
\* without Style for a layer without style and without Time for a layer
\* without time string; the URL of a layer without style or time string
\* holds no style or time value.
C20_RequestUrl ==
    lastOp.op = "resourceUrlForTile" =>
        LET url == lastOp.log
            tile == CHOOSE t \in LayerTiles : t.imagePath = lastOp.path
            styled == ~IsFalsy(styleIdentifier)
            timed == ~IsFalsy(timeString)
            Value(token) ==
                CASE token = "{Style}" -> styleIdentifier
                  [] token = "{TileMatrixSet}" -> tileMatrixSet.identifier
                  [] token = "{TileMatrix}" -> tile.tileMatrix.identifier
                  [] token = "{TileCol}" -> ToString(tile.column)
                  [] token = "{TileRow}" -> ToString(tile.row)
                  [] token = "{Time}" /\ timed -> timeString
                  [] OTHER -> token
            keyValue ==
                serviceUrl
                \o <<"service=WMTS&request=GetTile&version=1.0.0">>
                \o <<"&Layer=", layerIdentifier>>
                \o (IF styled THEN <<"&Style=", styleIdentifier>> ELSE <<>>)
                \o <<"&Format=", imageFormat>>
                \o (IF timed THEN <<"&Time=", timeString>> ELSE <<>>)
                \o <<"&TileMatrixSet=", tileMatrixSet.identifier,
                     "&TileMatrix=", tile.tileMatrix.identifier,
                     "&TileRow=", ToString(tile.row),
                     "&TileCol=", ToString(tile.column)>>
        IN  /\ IF resourceUrl # <<>>
               THEN url = [i \in 1..Len(resourceUrl) |-> Value(resourceUrl[i])]
               ELSE url = keyValue
            /\ ~styled => \A i \in 1..Len(url) : url[i] \notin {"&Style=", styleIdentifier}
            /\ ~timed => \A i \in 1..Len(url) : url[i] \notin {"&Time=", timeString}

Loaders == {"loadModelviewProjection", "loadNumDays", "loadMagnitudeRange"}

LoaderErrors == {name \o ":ArgumentError" : name \in Loaders}

\* the one uniform call a loader makes for its arguments
ExpectedUniformCall(name, arguments) ==
    IF name = "loadModelviewProjection"
    THEN UniformCall("uniformMatrix4fv", "mvpMatrix", arguments)
    ELSE IF name = "loadNumDays"
    THEN UniformCall("uniform1f", "numDays", arguments)
    ELSE UniformCall("uniform2f", "magnitudeRange", arguments)

\* C22: each uniform loader of StarFieldProgram throws ArgumentError and makes
\* no uniform call when one of its required arguments is null or undefined,
\* and otherwise makes exactly one uniform call, to its own location and with
\* its arguments; numbers such as 0 are accepted.
C22_LoadersThrowOrLoadOnce ==
    [][\A name \in Loaders :
          lastOp'.op \in {name, name \o ":ArgumentError"} =>
             IF \E i \in 1..Len(lastOp'.log) :
                    lastOp'.log[i] \in {Null, UndefinedValue}
             THEN lastOp'.op = name \o ":ArgumentError" /\ gl' = gl
             ELSE /\ lastOp'.op = name
                  /\ gl' = Append(gl, ExpectedUniformCall(name, lastOp'.log))]_vars

\* the magnitude range 0..0 and then 0 days have just been loaded, each with
\* one uniform call
C22_Witness ==
    /\ lastOp.op = "loadNumDays"
    /\ lastOp.log = <<Number(0)>>
    /\ gl = <<UniformCall("uniform2f", "magnitudeRange", <<Number(0), Number(0)>>),
              UniformCall("uniform1f", "numDays", <<Number(0)>>)>>

Frame == {"doRender:assembled", "doRender:kept"}

\* C23: a frame with terrain re-assembles the render list if and only if the
\* layer is invalid, or the modelview-projection differs from the previous
\* frame's (or there is none), or the globe state key differs from the previous
\* frame's; otherwise it leaves currentTiles alone and dispatches no fetch.
\* After a re-assembly currentTilesInvalid is false, and only the arrival of an
\* image makes it true again. No frame ends in an exception.
C23_AssembleIffInvalidated ==
    [][/\ lastOp'.op # "doRender:threw"
       /\ lastOp'.op \in Frame =>
             /\ lastOp'.op = "doRender:assembled" <=>
                   \/ currentTilesInvalid
                   \/ lasTtMVP' # lasTtMVP
                   \/ lastGlobeStateKey' # lastGlobeStateKey
             /\ lastOp'.op = "doRender:kept" =>
                   UNCHANGED <<currentTiles, images, currentRetrievals>>
             /\ lastOp'.op = "doRender:assembled" => ~currentTilesInvalid'
       /\ (currentTilesInvalid' /\ ~currentTilesInvalid) =>
             lastOp'.op = "image.onload"]_vars

\* a frame has just kept a render list that is not empty: the layer was valid
\* and the camera and the globe state key, which has changed before, are those
\* of the previous frame
C23_Witness ==
    /\ lastOp.op = "doRender:kept"
    /\ currentTiles # <<>>
    /\ ~currentTilesInvalid
    /\ lastGlobeStateKey = "globe2"

Calls == SeqToSet(lastOp.calls)

RECURSIVE NearestResidentAncestor(_)
\* the nearest tile above a path, on the way up to its top-level tile, whose
\* texture is in the GPU resource cache: <<its path>>, or <<>> if there is none
NearestResidentAncestor(path) ==
    IF path[1] = 0
    THEN <<>>
    ELSE IF ParentPath(path) \in DOMAIN gpuResourceCache
         THEN <<ParentPath(path)>>
         ELSE NearestResidentAncestor(ParentPath(path))

\* C25: after an assembly, what an accepted tile without a resident texture has
\* pushed in its place is its nearest ancestor whose texture is resident in
\* the GPU resource cache, and nothing if no ancestor's texture is resident;
\* so never a tile of a sibling subtree or of another top-level tile.
C25_NearestResidentAncestor ==
    Assembled =>
        \A e \in LogEntries : ~e.texture => e.pushed = NearestResidentAncestor(e.tile)

\* a tile of the deepest level was accepted without texture; its parent's
\* texture is not resident, the texture of its parent's sibling, subdivided
\* before in the same frame, is, and the top-level tile was pushed
C25_Witness ==
    /\ Assembled
    /\ \E e \in LogEntries, c \in Calls :
          /\ ~e.texture /\ e.tile[1] = 2
          /\ ParentPath(e.tile) \notin DOMAIN gpuResourceCache
          /\ e.pushed = <<ParentPath(ParentPath(e.tile))>>
          /\ c.tile[1] = 1 /\ c.tile # ParentPath(e.tile)
          /\ ~c.accepted /\ c.tile \in DOMAIN gpuResourceCache

\* C26: when a call of addTileOrDescendants returns or throws, the
\* ancestor-of-record currentAncestorTile is what it was when the call was
\* entered, whatever it was then and whether or not the tile recorded itself.
C26_AncestorRestored ==
    lastOp.op \in {"doRender:assembled", "doRender:threw"} =>
        \A c \in Calls : c.returned = c.entered

LevelIndex(path) ==
    CHOOSE i \in 0..(Len(tileMatrixSet.tileMatrix) - 1) :
        tileMatrixSet.tileMatrix[i + 1].levelNumber = path[1]

\* C27: whatever levels the negotiation kept, no assembly ends in an
\* exception; every visited tile of the deepest level of the set is accepted,
\* whatever the camera says of its texel size; and a tile that is not accepted
\* is subdivided into tiles of the level that follows its own in the set, a
\* level that exists.
C27_DeepestLevelAccepted ==
    /\ lastOp.op # "doRender:threw"
    /\ Assembled =>
          \A c \in Calls :
              /\ LevelIndex(c.tile) = Len(tileMatrixSet.tileMatrix) - 1 => c.accepted
              /\ ~c.accepted =>
                    /\ c.nextLevel = LevelIndex(c.tile) + 1
                    /\ c.nextLevel <= Len(tileMatrixSet.tileMatrix) - 1

\* C28: the threshold of the subdivision test is detailControl x 1.2 for a
\* tile whose latitudes are all at or poleward of 75 degrees (minimum latitude
\* >= 75 or maximum latitude <= -75) and detailControl otherwise, so 2.1 for a
\* tile around latitude 80 under the default 1.75; a tile that is not of the
\* deepest level meets the criterion exactly when its texel size is not above
\* the threshold; and the test leaves the layer's detailControl as it is.
C28_PolarThreshold ==
    [][lastOp'.op = "tileMeetsRenderingCriteria" =>
          LET call == lastOp'.log
              band == call.tile.sector
              polar == band.minLatitude >= 75 \/ band.maxLatitude <= -75
          IN  /\ polar => 10 * call.threshold = 12 * (10 * detailControl)
              /\ ~polar => call.threshold = 10 * detailControl
              /\ (/\ detailControl = 175
                  /\ band.minLatitude >= 75
                  /\ band.minLatitude <= 80 /\ 80 <= band.maxLatitude)
                 => call.threshold = 2100
              /\ call.tile.tileMatrix.levelNumber < Len(tileMatrixSet.tileMatrix) - 1
                 => (call.meets <=> call.texelSize <= call.threshold)
              /\ detailControl' = detailControl]_vars

\* under the default detailControl, a tile of the band 80..90 that is not of
\* the deepest level and whose texel size is 2 pixels has just been found to
\* meet the criterion, against the threshold 2.1
C28_Witness ==
    /\ lastOp.op = "tileMeetsRenderingCriteria"
    /\ detailControl = 175
    /\ lastOp.log.tile.sector.minLatitude = 80
    /\ lastOp.log.tile.tileMatrix.levelNumber = 2
    /\ lastOp.log.texelSize = 2100
    /\ lastOp.log.threshold = 2100
    /\ lastOp.log.meets

\* the sector of the tile of a path
SectorOfPath(path) ==
    createTile(tileMatrixSet.tileMatrix[LevelIndex(path) + 1], path[2], path[3]).sector

RECURSIVE PassedTheTests(_)
\* the tile of a path and each of its ancestors is visible to the camera of the
\* frame, and each of them below the top level meets the layer's sector
PassedTheTests(path) ==
    /\ path \in lasTtMVP.visible
    /\ path[1] > 0 =>
          /\ SectorIntersects(sector, SectorOfPath(path))
          /\ PassedTheTests(ParentPath(path))

\* C29: in a frame, the traversal enters a tile, and so accepts it, pushes it
\* or requests its image, only if the tile and all its ancestors passed the
\* visibility test of that frame and, below the top level, their sectors
\* intersect the layer's sector; every fetch dispatched is for such a tile.
C29_OnlyVisibleTilesInSector ==
    Assembled =>
        /\ \A c \in Calls : PassedTheTests(c.tile)
        /\ \A e \in LogEntries :
              /\ PassedTheTests(e.tile)
              /\ \E c \in Calls : c.tile = e.tile /\ c.accepted
        /\ \A i \in 1..Len(currentTiles) : PassedTheTests(currentTiles[i].imagePath)

\* the top-level tile was subdivided in a frame whose camera sees all four
\* children: the one inside the layer's sector was accepted and its image
\* requested, the three outside were not entered
C29_Witness ==
    /\ Assembled
    /\ \A t \in AllTiles : t.imagePath \in lasTtMVP.visible
    /\ \E t \in AllTiles : ~SectorIntersects(sector, t.sector)
    /\ \A t \in AllTiles :
          (\E c \in Calls : c.tile = t.imagePath)
             <=> (t.tileMatrix.levelNumber = 0 \/ SectorIntersects(sector, t.sector))
    /\ \E e \in LogEntries : e.tile[1] = 1 /\ e.dispatched

\* C30: a frame that accepts a tile whose texture is resident pushes that tile;
\* it requests the tile's image again exactly when the layer has an expiration
\* time and the texture was created at or before it, and the request becomes
\* a fetch exactly when the path is neither in flight nor reported absent. No
\* step of the layer removes a resident texture, and the only step of the
\* layer that replaces one is the arrival of the image of that path (a failed
\* retrieval leaves the cache as it was).
C30_ExpiredTextureKept ==
    [][/\ lastOp'.op = "doRender:assembled" =>
             \A e \in SeqToSet(lastOp'.log) :
                e.texture =>
                   /\ e.pushed = <<e.tile>>
                   /\ InArray([i \in 1..Len(currentTiles') |-> currentTiles'[i].imagePath],
                              e.tile)
                   /\ e.requested <=>
                         (expiration /\ gpuResourceCache[e.tile] = "createdBeforeExpiration")
                   /\ e.dispatched <=>
                         /\ e.requested
                         /\ NotInArray(currentRetrievals, e.tile)
                         /\ e.tile \notin absentResourceList
       /\ lastOp'.op # "environment" =>
             \A p \in DOMAIN gpuResourceCache :
                /\ p \in DOMAIN gpuResourceCache'
                /\ gpuResourceCache'[p] # gpuResourceCache[p] =>
                      lastOp'.op = "image.onload" /\ lastOp'.path = p
       /\ lastOp'.op = "image.onerror" => gpuResourceCache' = gpuResourceCache]_vars

\* a frame accepted a tile whose texture is expired: the tile is in the render
\* list with that texture still in the cache and its image is being fetched
C30_Witness ==
    /\ Assembled
    /\ expiration
    /\ \E e \in LogEntries :
          /\ e.texture /\ e.requested /\ e.dispatched
          /\ e.pushed = <<e.tile>>
          /\ InArray(CurrentTilePaths, e.tile)
          /\ gpuResourceCache[e.tile] = "createdBeforeExpiration"
          /\ InArray(currentRetrievals, e.tile)

\* a frame accepted the tile of a path without a resident texture and its
\* image is being fetched
AcceptedWithoutTexture(path) ==
    /\ Assembled
    /\ \E e \in LogEntries : e.tile = path /\ ~e.texture
    /\ InArray(currentRetrievals, path)

\* a frame's render list holds the tile of a path with its own texture
RenderedWithOwnImagery(path) ==
    /\ Assembled
    /\ \E e \in LogEntries : e.tile = path /\ e.texture /\ e.pushed = <<path>>
    /\ InArray(CurrentTilePaths, path)
    /\ path \in DOMAIN gpuResourceCache

\* a frame whose camera does not accept the tile of a path: the globe has no
\* terrain, or the traversal did not accept the tile
NotAcceptedByTheCamera(path) ==
    \/ lastOp.op = "doRender:noTerrain"
    \/ Assembled /\ \A e \in LogEntries : e.tile # path

\* the fetch of a path failed
FetchFailed(path) == lastOp.op = "image.onerror" /\ lastOp.path = path

\* C21: when a frame has accepted a tile without a resident texture and its
\* image is being fetched, then, the canvas drawing a frame after each REDRAW
\* event and nothing being evicted, eventually a frame's render list holds
\* the tile with its own texture, unless the fetch fails or a frame's camera
\* no longer accepts the tile.
C21_EventuallyOwnImagery ==
    \A path \in LivePaths :
        AcceptedWithoutTexture(path)
           ~> (\/ RenderedWithOwnImagery(path)
               \/ NotAcceptedByTheCamera(path)
               \/ FetchFailed(path))

\* the frame after the arrival of the image of a tile below the top level
\* holds that tile with its own texture: nothing is in flight and no REDRAW
\* event is pending
C21_Witness ==
    /\ \E path \in LivePaths : path[1] > 0 /\ RenderedWithOwnImagery(path)
    /\ gpuResourceCache # << >>
    /\ \A p \in DOMAIN gpuResourceCache : gpuResourceCache[p] = "createdAfterExpiration"
    /\ currentRetrievals = <<>>
    /\ ~redrawEvents
    /\ ~currentTilesInvalid

\* the callbacks of an Image
Callbacks == {"image.onload", "image.onload:threw", "image.onerror"}

\* C31: a path is in currentRetrievals exactly while a fetch of it is
\* outstanding; right after image.onload or image.onerror has run for a path,
\* with or without a texture, the path is not in currentRetrievals, and a
\* call of retrieveTileImage for it then dispatches a fetch unless the path
\* is reported absent.
C31_InFlightUntilCallback ==
    /\ \A path \in LayerPaths : InArray(currentRetrievals, path) <=> BagIn(path, images)
    /\ lastOp.op \in Callbacks =>
          /\ NotInArray(currentRetrievals, lastOp.path)
          /\ \A tile \in LayerTiles :
                (tile.imagePath = lastOp.path /\ ~isResourceAbsent(lastOp.path)) =>
                   LET st == retrieveTileImage(tile,
                                [currentRetrievals |-> currentRetrievals,
                                 images |-> images,
                                 currentTilesInvalid |-> currentTilesInvalid])
                   IN  BagIn(lastOp.path, st.images)

\* the same, for the callbacks that run to their end
C31_InFlightUntilCallbackReturns ==
    (\A path \in LayerPaths : InArray(currentRetrievals, path) => BagIn(path, images))
        => C31_InFlightUntilCallback

\* an image has loaded and image.onload has run to its end, or the fetch has
\* failed: the path is out of currentRetrievals
C31_CallbackReturned ==
    /\ lastOp.op \in {"image.onload", "image.onerror"}
    /\ NotInArray(currentRetrievals, lastOp.path)
    /\ ~BagIn(lastOp.path, images)

\* the frames that ran assembleTiles
Assemblies == {"doRender:assembled", "doRender:threw"}

\* C32: a frame that runs assembleTiles leaves in currentTiles exactly what
\* its calls of addTile pushed, in order, and every entry, a tile with its
\* own texture or a fallback ancestor, has its imagePath in the GPU resource
\* cache the frame found; a tile accepted without a texture whose
\* ancestor-of-record has no texture, a top-level ancestor included, pushes
\* nothing.
C32_OnlyResidentTilesPushed ==
    [][lastOp'.op \in Assemblies =>
          /\ [i \in 1..Len(currentTiles') |-> currentTiles'[i].imagePath]
                = PushedBy(lastOp'.log)
          /\ \A i \in 1..Len(currentTiles') :
                currentTiles'[i].imagePath \in DOMAIN gpuResourceCache
          /\ \A e \in SeqToSet(lastOp'.log) :
                /\ e.texture <=> e.tile \in DOMAIN gpuResourceCache
                /\ (~e.texture /\ e.ancestor \notin DOMAIN gpuResourceCache) =>
                      e.pushed = <<>>]_vars

\* a frame accepted a tile below the top level without a texture while its
\* top-level ancestor-of-record had none either, and nothing was pushed for
\* it; the cache holds the texture of another tile
C32_Witness ==
    /\ Assembled
    /\ topLevelTiles # <<>>
    /\ \E e \in LogEntries :
          /\ ~e.texture
          /\ e.tile[1] > 0
          /\ e.ancestor # <<>>
          /\ e.ancestor[1] = 0
          /\ e.ancestor \notin DOMAIN gpuResourceCache
          /\ e.pushed = <<>>
    /\ gpuResourceCache # << >>

====
